---- MODULE Spec2Model ----
(***************************************************************************)
(* Model of the copy-trading execution engine of                           *)
(* polymarket_copy_trading_bot: the trade monitor (ingest, cold start),    *)
(* the trade executor (loop, aggregation buffer), post_order (the buy,     *)
(* sell and merge book walks) and calculate_order_size.                    *)
(*                                                                         *)
(* Numbers.  Python floats are modelled in fixed point with two decimals:  *)
(* a dollar amount, a price, a token count, a percentage and a multiplier  *)
(* x are all the integer x * SCALE.  Mul and Div are the product and the   *)
(* quotient in that representation (the quotient truncates).               *)
(*                                                                         *)
(* Time.  `now` is time.time() in clock ticks; a sleeping thread holds the  *)
(* ticks it has left to sleep, and Tick advances the clock.                *)
(***************************************************************************)
EXTENDS Integers, Sequences, FiniteSets, TLC

VARIABLES
    ledger,  \* the user_activities collection: a sequence of records, _id = index
    now,     \* time.time()
    mon,     \* trade_monitor thread: program counter, cutoff_ts, ticks left to sleep
    exe,     \* trade_executor thread: program counter, `trades`, loop index, ...
    buffer,  \* _trade_aggregation_buffer, in insertion order
    walk,    \* the frame of the running post_order call: its arguments and locals,
             \* and of the orders it submitted their number, the sum of their
             \* amounts (submitted), the last one's amount and the last answer
    env,     \* ENV and the world outside: configuration and the trade feed's contents
    hist,    \* history: pre   - ids of the records unprocessed at boot
             \*          stale - ids of the records ingested older than the cutoff
             \*          again - in the running poll cycle the feed has returned
             \*                  a trade that was already in the ledger
             \*          ordered - ids of the records an order was submitted for
             \*          posted  - per id, the post_order calls made for the record
    calc,    \* the configuration function under test (calculate_order_size,
             \* parse_tiered_multipliers): its arguments and its result
    running  \* the _is_running flags of trade_monitor and of trade_executor

vars == <<ledger, now, mon, exe, buffer, walk, env, hist, calc, running>>

----------------------------------------------------------------------------
(* Fixed point                                                             *)

SCALE == 100

\* Python None for an Optional[float] field
None == -1000000

Mul(a, b) == (a * b) \div SCALE

Div(a, b) == IF b > 0 THEN (a * SCALE) \div b ELSE 0 - ((a * SCALE) \div (0 - b))

Min2(a, b) == IF a <= b THEN a ELSE b

Max2(a, b) == IF a >= b THEN a ELSE b

\* Python `x or d` on an Optional[float]: None and 0.0 are both falsy
OrElse(x, d) == IF x = None \/ x = 0 THEN d ELSE x

----------------------------------------------------------------------------
(* config/copy_strategy.py                                                 *)

\* _lerp
Lerp(a, b, t) == a + Mul(b - a, Max2(0, Min2(SCALE, t)))

\* _calculate_adaptive_percent
CalculateAdaptivePercent(config, trader_order_size) ==
    LET min_percent == OrElse(config.adaptive_min_percent, config.copy_size)
        max_percent == OrElse(config.adaptive_max_percent, config.copy_size)
        threshold   == OrElse(config.adaptive_threshold, 500 * SCALE)
    IN  IF trader_order_size >= threshold
        THEN Lerp(config.copy_size, min_percent,
                  Min2(SCALE, Div(trader_order_size, threshold) - SCALE))
        ELSE Lerp(max_percent, config.copy_size, Div(trader_order_size, threshold))

RECURSIVE TierScan(_, _, _)
\* the for loop of get_trade_multiplier from tier i on; None when no tier matches
TierScan(tiers, i, trader_order_size) ==
    IF i > Len(tiers) THEN None
    ELSE IF /\ trader_order_size >= tiers[i].min
            /\ (tiers[i].max = None \/ trader_order_size < tiers[i].max)
         THEN tiers[i].multiplier
         ELSE TierScan(tiers, i + 1, trader_order_size)

\* a multiplier that ignores the tier table
ScalarMultiplier(config, trader_order_size) ==
    IF config.trade_multiplier # None THEN config.trade_multiplier ELSE SCALE

\* get_trade_multiplier
GetTradeMultiplier(config, trader_order_size) ==
    LET tiers == config.tiered_multipliers
    IN  IF Len(tiers) > 0
        THEN LET m == TierScan(tiers, 1, trader_order_size)
             IN  IF m # None THEN m ELSE tiers[Len(tiers)].multiplier
        ELSE IF config.trade_multiplier # None THEN config.trade_multiplier
        ELSE SCALE

\* calculate_order_size, lines 88-103: the base amount by strategy
BaseAmount(config, trader_order_size) ==
    CASE config.strategy = "PERCENTAGE" ->
            Mul(trader_order_size, config.copy_size \div 100)
      [] config.strategy = "FIXED" -> config.copy_size
      [] config.strategy = "ADAPTIVE" ->
            Mul(trader_order_size,
                CalculateAdaptivePercent(config, trader_order_size) \div 100)

\* a calculate_order_size that forgets the cap at max_order_size_usd
MaxCapOff(config, amount) == amount

\* calculate_order_size, lines 115-118: cap at max_order_size_usd
CapAtMax(config, amount) ==
    IF amount > config.max_order_size_usd THEN config.max_order_size_usd ELSE amount

\* a calculate_order_size that ignores max_position_size_usd
PositionLimitOff(config, amount, current_position_size) == amount

\* calculate_order_size, lines 120-129: the position limit
CapAtPosition(config, amount, current_position_size) ==
    IF config.max_position_size_usd = None THEN amount
    ELSE IF current_position_size + amount > config.max_position_size_usd
         THEN LET allowed == Max2(0, config.max_position_size_usd - current_position_size)
              IN  IF allowed < config.min_order_size_usd THEN 0 ELSE allowed
         ELSE amount

\* calculate_order_size, lines 131-135: never more than 99% of the balance
CapAtBalance(amount, available_balance) ==
    LET max_affordable == Mul(available_balance, 99)
    IN  IF amount > max_affordable THEN max_affordable ELSE amount

\* calculate_order_size, lines 137-140: the minimum floor
MinFloor(config, amount) ==
    IF amount < config.min_order_size_usd THEN 0 ELSE amount

\* calculate_order_size: the OrderSizeCalculation it returns (without the reasoning text)
CalculateOrderSize(config, trader_order_size, available_balance, current_position_size) ==
    LET base_amount == BaseAmount(config, trader_order_size)
        multiplied  == Mul(base_amount, GetTradeMultiplier(config, trader_order_size))
        capped      == CapAtMax(config, multiplied)
        positioned  == CapAtPosition(config, capped, current_position_size)
        affordable  == CapAtBalance(positioned, available_balance)
        final       == MinFloor(config, affordable)
    IN  [ trader_order_size  |-> trader_order_size,
          base_amount        |-> base_amount,
          final_amount       |-> final,
          capped_by_max      |-> multiplied > config.max_order_size_usd,
          reduced_by_balance |-> positioned > Mul(available_balance, 99),
          below_minimum      |-> affordable < config.min_order_size_usd ]

\* validate_copy_strategy_config: the set of errors it reports
ValidateCopyStrategyConfig(config) ==
    (IF config.copy_size <= 0 THEN {"copy_size must be positive"} ELSE {})
    \cup (IF config.strategy = "PERCENTAGE" /\ config.copy_size > 100 * SCALE
          THEN {"copy_size for PERCENTAGE strategy should be <= 100"} ELSE {})
    \cup (IF config.max_order_size_usd <= 0
          THEN {"max_order_size_usd must be positive"} ELSE {})
    \cup (IF config.min_order_size_usd <= 0
          THEN {"min_order_size_usd must be positive"} ELSE {})
    \cup (IF config.min_order_size_usd > config.max_order_size_usd
          THEN {"min_order_size_usd cannot be greater than max_order_size_usd"} ELSE {})
    \cup (IF config.strategy = "ADAPTIVE"
          THEN IF config.adaptive_min_percent = None \/ config.adaptive_max_percent = None
               THEN {"ADAPTIVE strategy requires adaptive_min_percent and adaptive_max_percent"}
               ELSE IF config.adaptive_min_percent > config.adaptive_max_percent
                    THEN {"adaptive_min_percent cannot be greater than adaptive_max_percent"}
                    ELSE {}
          ELSE {})

\* parse_tiered_multipliers.  The configuration string is the sequence of its
\* comma-separated tier definitions; a definition is the number of its
\* ':'-separated parts, the form of its range part ("min-max", "min+" or a bare
\* "min") and the numbers written in it.

\* a tier definition as written in the string
Written(parts, form, min, max, multiplier) ==
    [parts |-> parts, form |-> form, min |-> min, max |-> max,
     multiplier |-> multiplier]

\* lines 220-251: the tier of one definition, or the ValueError it raises
ParseTier(tier_def) ==
    IF tier_def.parts # 2 THEN [error |-> "Invalid tier format"]
    ELSE IF tier_def.multiplier < 0 THEN [error |-> "Invalid multiplier"]
    ELSE IF tier_def.form = "min+"
         THEN IF tier_def.min < 0 THEN [error |-> "Invalid minimum value"]
              ELSE [error |-> "", min |-> tier_def.min, max |-> None,
                    multiplier |-> tier_def.multiplier]
    ELSE IF tier_def.form = "min-max"
         THEN IF tier_def.min < 0 \/ tier_def.max <= tier_def.min
              THEN [error |-> "Invalid range"]
              ELSE [error |-> "", min |-> tier_def.min, max |-> tier_def.max,
                    multiplier |-> tier_def.multiplier]
    ELSE [error |-> "Invalid range format"]

RECURSIVE FirstError(_)
\* the for loop of lines 220-251: the error of the first definition that has one
FirstError(tier_defs) ==
    IF tier_defs = <<>> THEN ""
    ELSE IF ParseTier(Head(tier_defs)).error # "" THEN ParseTier(Head(tier_defs)).error
         ELSE FirstError(Tail(tier_defs))

\* MultiplierTier(min, max, multiplier) of a definition that parses
TierOf(tier_def) ==
    LET t == ParseTier(tier_def)
    IN  [min |-> t.min, max |-> t.max, multiplier |-> t.multiplier]

RECURSIVE InsertByMin(_, _)
\* tier, put into the sorted list after every tier whose min is not greater
InsertByMin(sorted, tier) ==
    IF sorted = <<>> THEN <<tier>>
    ELSE IF Head(sorted).min <= tier.min
         THEN <<Head(sorted)>> \o InsertByMin(Tail(sorted), tier)
         ELSE <<tier>> \o sorted

\* a parser that keeps the tiers in the order written
Unsorted(tiers) == tiers

RECURSIVE SortByMin(_)
\* line 253: tiers.sort(key=lambda tier: tier.min), a stable sort
SortByMin(tiers) ==
    IF tiers = <<>> THEN <<>>
    ELSE InsertByMin(SortByMin(SubSeq(tiers, 1, Len(tiers) - 1)), tiers[Len(tiers)])

\* a check that never finds an overlap
NeverOverlaps(current, next_tier) == FALSE

\* line 262: current.max > next_tier.min
Overlapping(current, next_tier) == current.max > next_tier.min

RECURSIVE CheckTiers(_, _)
\* lines 255-265 from index idx on: the error raised, "" when none
CheckTiers(tiers, idx) ==
    IF idx >= Len(tiers) THEN ""
    ELSE IF tiers[idx].max = None THEN "Tier with infinite upper bound must be last"
    ELSE IF Overlapping(tiers[idx], tiers[idx + 1]) THEN "Overlapping tiers"
    ELSE CheckTiers(tiers, idx + 1)

\* parse_tiered_multipliers: the error it raises ("" when none) and the table
\* it returns
ParseTieredMultipliers(tier_defs) ==
    IF FirstError(tier_defs) # ""
    THEN [error |-> FirstError(tier_defs), tiers |-> <<>>]
    ELSE LET tiers == SortByMin([n \in DOMAIN tier_defs |-> TierOf(tier_defs[n])])
         IN  IF CheckTiers(tiers, 1) # ""
             THEN [error |-> CheckTiers(tiers, 1), tiers |-> <<>>]
             ELSE [error |-> "", tiers |-> tiers]

----------------------------------------------------------------------------
(* Configuration (ENV) and constants                                       *)

\* ENV.retry_limit (RETRY_LIMIT, default "3")
RETRY_LIMIT == 3

\* ENV.too_old_timestamp: the age, in clock ticks, beyond which a trade is too old
TOO_OLD == 2

\* ENV.fetch_interval: the monitor sleeps at least this many ticks between polls
FETCH_INTERVAL == 1

\* time.sleep(0.3) of the executor loop: at least this many ticks
EXECUTOR_SLEEP == 1

\* ENV.trade_aggregation_window_seconds, in clock ticks
WINDOW == 2

TRADE_AGGREGATION_MIN_TOTAL_USD == 100

MIN_ORDER_SIZE_USD == 100

MIN_ORDER_SIZE_TOKENS == 100

MAX_PRICE_SLIPPAGE == 5

\* botExcutedTime of a trade that was skipped as too old
SKIPPED == 999

\* the clock stops at MaxTime (MaxTimeAgg with aggregation enabled); the process
\* boots at time 0
MaxTime == 2

MaxTimeAgg == 2

MaxTimeBuys == 2

\* with two small buys a tick apart the clock stops at MaxTimeWindow
MaxTimeWindow == 3

\* the ledger never holds more than MaxLedger records
MaxLedger == 4

\* with two tracked traders the clock stops at MaxTimeIngest
MaxTimeIngest == 2

\* with a shutdown request the clock stops at MaxTimeStop
MaxTimeStop == 1

\* a TIERED_MULTIPLIERS string has at most MaxTiers tier definitions
\* the orders of one call of post_order that are followed
MaxOrders == 30

MaxTiers == 3

\* transaction hashes the feed can return
Hashes == DOMAIN env.feed

\* the attributes of the trade with transaction hash h, as the feed returns them
Attr(h) == env.feed[h]

----------------------------------------------------------------------------
(* The ledger: user_activities_<address> (models/user_history.py)          *)

Ids == DOMAIN ledger

\* an absent myBoughtSize field
NoSize == -1

\* a lookup that never finds the hash
HashNeverFound(transaction_hash) == FALSE

\* collection.find_one({"transactionHash": transaction_hash}) found a record
FindOneByHash(transaction_hash) ==
    \E i \in Ids : ledger[i].hash = transaction_hash

\* collection.update_one({"_id": id}, {"$set": fields}) for one field
SetField(l, id, field, value) ==
    [i \in DOMAIN l |-> IF i = id THEN [l[i] EXCEPT ![field] = value] ELSE l[i]]

\* a comparison that also takes a trade made at the cutoff for too old
IsTooOldInclusive(timestamp, cutoff_ts) == timestamp <= cutoff_ts

\* _process_new_trade, line 140: too_old
IsTooOld(timestamp, cutoff_ts) == timestamp < cutoff_ts

\* a record built without the too-old classification
NewActivityUnclassified(h, cutoff_ts) ==
    [hash |-> h, bot |-> FALSE, botExcutedTime |-> 0, myBoughtSize |-> NoSize]

\* the record _process_new_trade builds, lines 140-165
NewActivity(h, cutoff_ts) ==
    LET too_old == IsTooOld(Attr(h).timestamp, cutoff_ts)
    IN  [ hash           |-> h,
          bot            |-> too_old,
          botExcutedTime |-> IF too_old THEN SKIPPED ELSE 0,
          myBoughtSize   |-> NoSize ]

\* a bulk mark that leaves the records with a botExcutedTime other than 0 alone
MarkHistoricalPendingOnly(l) ==
    [i \in DOMAIN l |->
        IF ~l[i].bot /\ l[i].botExcutedTime = 0
        THEN [l[i] EXCEPT !.bot = TRUE, !.botExcutedTime = SKIPPED]
        ELSE l[i]]

\* update_many({"bot": False}, {"$set": {"bot": True, "botExcutedTime": 999}})
MarkHistorical(l) ==
    [i \in DOMAIN l |->
        IF ~l[i].bot THEN [l[i] EXCEPT !.bot = TRUE, !.botExcutedTime = SKIPPED]
        ELSE l[i]]

\* a query that forgets the botExcutedTime = 0 condition
IsUnprocessedIgnoringAttempts(r) == Attr(r.hash).type = "TRADE" /\ r.bot = FALSE

\* the filter of _read_temp_trades on one record
IsUnprocessed(r) ==
    /\ Attr(r.hash).type = "TRADE"
    /\ r.bot = FALSE
    /\ r.botExcutedTime = 0

RECURSIVE SelectIds(_, _)
\* the ids i..Len(ledger) of the records the executor's query returns, in natural order
SelectIds(l, i) ==
    IF i > Len(l) THEN <<>>
    ELSE IF IsUnprocessed(l[i]) THEN <<i>> \o SelectIds(l, i + 1)
         ELSE SelectIds(l, i + 1)

\* _read_temp_trades
ReadTempTrades == SelectIds(ledger, 1)

----------------------------------------------------------------------------
(* services/trade_monitor.py                                               *)

\* _get_old_trade_cutoff
GetOldTradeCutoff == now - TOO_OLD

\* trade_monitor, lines 209-222: the first-run bulk mark
M_FirstRun ==
    /\ mon.pc = "start"
    /\ ledger' = MarkHistorical(ledger)
    /\ mon' = [mon EXCEPT !.pc = "loop"]
    /\ UNCHANGED <<now, exe, buffer, walk, env, hist, calc, running>>

\* _fetch_trade_data, line 186: a poll cycle starts
M_BeginCycle ==
    /\ mon.pc = "loop"
    /\ mon.sleep = 0
    /\ running.monitor
    /\ mon' = [mon EXCEPT !.pc = "cycle", !.cutoff_ts = GetOldTradeCutoff]
    /\ UNCHANGED <<ledger, now, exe, buffer, walk, env, hist, calc, running>>

\* _process_new_trade for one activity of the feed; the feed returns only
\* trades that have happened, and may return the same one again and again
M_ProcessNewTrade(h) ==
    /\ mon.pc = "cycle"
    /\ Attr(h).timestamp <= now
    /\ IF FindOneByHash(h)
       THEN /\ ledger' = ledger
            /\ hist' = [hist EXCEPT !.again = TRUE]
       ELSE /\ Len(ledger) < MaxLedger
            /\ ledger' = Append(ledger, NewActivity(h, mon.cutoff_ts))
            /\ hist' = IF IsTooOld(Attr(h).timestamp, mon.cutoff_ts)
                       THEN [hist EXCEPT !.stale = @ \cup {Len(ledger) + 1}]
                       ELSE hist
    /\ UNCHANGED <<now, mon, exe, buffer, walk, env, calc, running>>

\* the cycle ends (feed exhausted, empty, or the fetch raised); then sleep
M_EndCycle ==
    /\ mon.pc = "cycle"
    /\ mon' = [pc |-> "loop", cutoff_ts |-> 0, sleep |-> FETCH_INTERVAL]
    /\ hist' = [hist EXCEPT !.again = FALSE]
    /\ UNCHANGED <<ledger, now, exe, buffer, walk, env, calc, running>>

\* _fetch_trade_data trader by trader (several tracked traders).  `ledger` holds
\* the records of every trader's collection; a record belongs to the collection
\* of the trader who made its trade.  In mon: k is the index of the trader in
\* _user_models, activities what is left of the list fetch_data returned,
\* fetched and failed the traders whose fetch was attempted, and raised, in the
\* running cycle.

\* USER_ADDRESSES
UserAddresses == <<1, 2>>

RECURSIVE ActivitiesOf(_, _)
\* the hashes, from h on, of the trades that `address` has made so far
ActivitiesOf(address, h) ==
    IF h > Len(env.feed) THEN <<>>
    ELSE IF Attr(h).user = address /\ Attr(h).timestamp <= now
         THEN <<h>> \o ActivitiesOf(address, h + 1)
         ELSE ActivitiesOf(address, h + 1)

\* the loop of line 187 goes to the next trader
NextTrader(m) == [m EXCEPT !.pc = "fetch", !.k = @ + 1, !.activities = <<>>]

\* an except clause around the whole loop: the rest of the traders is skipped
SkipRemainingTraders(m, address) ==
    [m EXCEPT !.pc = "fetch", !.k = Len(UserAddresses) + 1, !.activities = <<>>,
              !.failed = @ \cup {address}]

\* lines 199-200: the exception is logged and the loop goes to the next trader
OnFetchError(m, address) ==
    [NextTrader(m) EXCEPT !.failed = @ \cup {address}]

\* line 186: a poll cycle starts
MT_BeginCycle ==
    /\ mon.pc = "loop"
    /\ mon.sleep = 0
    /\ running.monitor
    /\ mon' = [mon EXCEPT !.pc = "fetch", !.cutoff_ts = GetOldTradeCutoff, !.k = 1,
                          !.activities = <<>>, !.fetched = {}, !.failed = {}]
    /\ UNCHANGED <<ledger, now, exe, buffer, walk, env, hist, calc, running>>

\* lines 192-195: fetch_data returns the trader's activities
MT_Fetch ==
    /\ mon.pc = "fetch"
    /\ mon.k <= Len(UserAddresses)
    /\ LET address    == UserAddresses[mon.k]
           activities == ActivitiesOf(address, 1)
       IN  mon' = IF activities = <<>>
                  THEN [NextTrader(mon) EXCEPT !.fetched = @ \cup {address}]
                  ELSE [mon EXCEPT !.pc = "process", !.activities = activities,
                                   !.fetched = @ \cup {address}]
    /\ UNCHANGED <<ledger, now, exe, buffer, walk, env, hist, calc, running>>

\* line 197: _process_new_trade for the next activity of the list
MT_Process ==
    /\ mon.pc = "process"
    /\ mon.activities # <<>>
    /\ LET h == Head(mon.activities)
       IN  IF FindOneByHash(h) THEN ledger' = ledger
           ELSE /\ Len(ledger) < MaxLedger
                /\ ledger' = Append(ledger, NewActivity(h, mon.cutoff_ts))
    /\ mon' = [mon EXCEPT !.activities = Tail(@)]
    /\ UNCHANGED <<now, exe, buffer, walk, env, hist, calc, running>>

\* line 198: _update_trader_positions, then the next trader
MT_UpdatePositions ==
    /\ mon.pc = "process"
    /\ mon.activities = <<>>
    /\ mon' = NextTrader(mon)
    /\ UNCHANGED <<ledger, now, exe, buffer, walk, env, hist, calc, running>>

\* fetch_data, a database call of _process_new_trade or _update_trader_positions
\* raises
MT_Raises ==
    /\ \/ mon.pc = "fetch" /\ mon.k <= Len(UserAddresses)
       \/ mon.pc = "process"
    /\ mon' = [OnFetchError(mon, UserAddresses[mon.k]) EXCEPT
                  !.fetched = @ \cup {UserAddresses[mon.k]}]
    /\ UNCHANGED <<ledger, now, exe, buffer, walk, env, hist, calc, running>>

\* lines 227-229: every trader was visited; sleep
MT_EndCycle ==
    /\ mon.pc = "fetch"
    /\ mon.k > Len(UserAddresses)
    /\ mon' = [mon EXCEPT !.pc = "loop", !.sleep = FETCH_INTERVAL]
    /\ UNCHANGED <<ledger, now, exe, buffer, walk, env, hist, calc, running>>

\* time passes: the clock advances and the sleeping threads have less to sleep
Tick ==
    /\ now < env.horizon
    /\ now' = now + 1
    /\ mon' = [mon EXCEPT !.sleep = Max2(0, @ - 1)]
    /\ exe' = [exe EXCEPT !.sleep = Max2(0, @ - 1)]
    /\ UNCHANGED <<ledger, buffer, walk, env, hist, calc, running>>

----------------------------------------------------------------------------
(* services/trade_executor.py: the aggregation buffer                      *)

\* the trade dict of ledger record id, as find() returns it
TradeOf(id) ==
    LET a == Attr(ledger[id].hash)
    IN  [ id |-> id, side |-> a.side, size |-> a.size, usdcSize |-> a.usdcSize,
          price |-> a.price, asset |-> a.asset, conditionId |-> a.conditionId ]

\* _aggregation_key (one tracked trader)
AggregationKey(trade) == <<trade.conditionId, trade.asset, trade.side>>

RECURSIVE TotalValue(_)
\* sum(usdcSize * price for item in existing.trades)
TotalValue(trades) ==
    IF trades = <<>> THEN 0
    ELSE Mul(Head(trades).usdcSize, Head(trades).price) + TotalValue(Tail(trades))

\* _add_to_aggregation_buffer
AddToAggregationBuffer(buf, trade) ==
    LET key == AggregationKey(trade)
    IN  IF \E k \in DOMAIN buf : buf[k].key = key
        THEN [k \in DOMAIN buf |->
                IF buf[k].key = key
                THEN LET trades == Append(buf[k].trades, trade)
                         total  == buf[k].total_usdc_size + trade.usdcSize
                     IN  [buf[k] EXCEPT
                            !.trades = trades,
                            !.total_usdc_size = total,
                            !.average_price =
                                IF total > 0 THEN Div(TotalValue(trades), total) ELSE 0,
                            !.last_trade_time = now]
                ELSE buf[k]]
        ELSE Append(buf, [ key              |-> key,
                           side             |-> trade.side,
                           trades           |-> <<trade>>,
                           total_usdc_size  |-> trade.usdcSize,
                           average_price    |-> trade.price,
                           first_trade_time |-> now,
                           last_trade_time  |-> now ])

\* a window counted from the last trade that joined the group
WindowSinceLastTrade(agg) == now - agg.last_trade_time > WINDOW

\* _ready_aggregated_trades, line 133: the group's window has elapsed
WindowElapsed(agg) == now - agg.first_trade_time >= WINDOW

\* _ready_aggregated_trades, line 134: the group is big enough to dispatch
BigEnough(agg) == agg.total_usdc_size >= TRADE_AGGREGATION_MIN_TOTAL_USD

RECURSIVE ReadyGroups(_)
\* _ready_aggregated_trades: the groups it returns
ReadyGroups(buf) ==
    IF buf = <<>> THEN <<>>
    ELSE IF WindowElapsed(Head(buf)) /\ BigEnough(Head(buf))
         THEN <<Head(buf)>> \o ReadyGroups(Tail(buf))
         ELSE ReadyGroups(Tail(buf))

RECURSIVE RemainingGroups(_)
\* _ready_aggregated_trades: the buffer it leaves
RemainingGroups(buf) ==
    IF buf = <<>> THEN <<>>
    ELSE IF ~WindowElapsed(Head(buf))
         THEN <<Head(buf)>> \o RemainingGroups(Tail(buf))
         ELSE RemainingGroups(Tail(buf))

\* _ready_aggregated_trades, lines 140-142: constituents of discarded groups get bot = True
MarkDiscarded(l, buf) ==
    [i \in DOMAIN l |->
        IF \E k \in DOMAIN buf :
              /\ WindowElapsed(buf[k]) /\ ~BigEnough(buf[k])
              /\ \E n \in DOMAIN buf[k].trades : buf[k].trades[n].id = i
        THEN [l[i] EXCEPT !.bot = TRUE]
        ELSE l[i]]

\* the ids of the trades of a group or list
IdsOf(trades) == {trades[n].id : n \in DOMAIN trades}

----------------------------------------------------------------------------
(* post_order frames                                                       *)

NoPosition == [some |-> FALSE, size |-> 0, avgPrice |-> 0]

NoTrade == [ id |-> 0, side |-> "", size |-> 0, usdcSize |-> 0, price |-> 0,
             asset |-> "", conditionId |-> "" ]

NoResponse == [kind |-> "none", message |-> <<>>]

WalkIdle ==
    [ pc |-> "idle", condition |-> "", trade |-> NoTrade,
      my_position |-> NoPosition, user_position |-> NoPosition, my_balance |-> 0,
      remaining |-> 0, retry |-> 0, abort_due_to_funds |-> FALSE,
      total_tokens |-> 0, total_bought_tokens |-> 0, previous_buys |-> <<>>,
      base_sell_size |-> 0,
      members |-> {}, orders |-> 0, submitted |-> 0, amount |-> 0,
      price |-> 0, last |-> NoResponse, writes |-> 0, fails |-> 0, filled |-> 0 ]

\* the frame of a call post_order(clob_client, condition, my_position, user_position,
\* trade, my_balance, ...) before its first statement runs
CallFrame(condition, trade, data, members) ==
    [WalkIdle EXCEPT !.pc = "call", !.condition = condition, !.trade = trade,
                     !.my_position = data.my_position,
                     !.user_position = data.user_position,
                     !.my_balance = data.my_balance,
                     !.members = members]

----------------------------------------------------------------------------
(* utils/error_helpers.py.  An error message is a sequence of characters.  *)

UpperCase == <<"A", "B", "C", "D", "E", "F", "G", "H", "I", "J", "K", "L", "M", "N", "O", "P", "Q", "R", "S", "T", "U", "V", "W", "X", "Y", "Z">>

LowerCase == <<"a", "b", "c", "d", "e", "f", "g", "h", "i", "j", "k", "l", "m", "n", "o", "p", "q", "r", "s", "t", "u", "v", "w", "x", "y", "z">>

\* the lower-case letter of each capital
LowerOf ==
    [c \in {UpperCase[n] : n \in DOMAIN UpperCase} |->
        LowerCase[CHOOSE n \in DOMAIN UpperCase : UpperCase[n] = c]]

\* str.lower() on one character
LowerChar(c) == IF c \in DOMAIN LowerOf THEN LowerOf[c] ELSE c

\* message.lower()
Lower(message) == [n \in DOMAIN message |-> LowerChar(message[n])]

\* needle in haystack
Contains(haystack, needle) ==
    \E n \in 1 .. (Len(haystack) - Len(needle) + 1) :
        SubSeq(haystack, n, n + Len(needle) - 1) = needle

NotEnoughBalanceText == <<"n", "o", "t", " ", "e", "n", "o", "u", "g", "h", " ", "b", "a", "l", "a", "n", "c", "e">>

AllowanceText == <<"a", "l", "l", "o", "w", "a", "n", "c", "e">>

\* a classification that compares without message.lower()
IsInsufficientCaseSensitive(message) ==
    IF message = <<>> THEN FALSE
    ELSE Contains(message, NotEnoughBalanceText) \/ Contains(message, AllowanceText)

\* is_insufficient_balance_or_allowance_error; <<>> stands for None and for ""
IsInsufficientBalanceOrAllowanceError(message) ==
    IF message = <<>> THEN FALSE
    ELSE LET lower == Lower(message)
         IN  Contains(lower, NotEnoughBalanceText) \/ Contains(lower, AllowanceText)

\* extract_order_error(resp): the error text of a response, <<>> when it has none
ExtractOrderError(resp) == resp.message

\* raise_if_insufficient_funds(error_message) raises InsufficientFundsError
RaisesInsufficientFunds(error_message) ==
    IsInsufficientBalanceOrAllowanceError(error_message)

\* error texts the exchange may answer with
ErrorMessages ==
    { <<>>,
      <<"n", "o", "t", " ", "e", "n", "o", "u", "g", "h", " ", "b", "a", "l", "a", "n", "c", "e", " ", "/", " ", "a", "l", "l", "o", "w", "a", "n", "c", "e">>,
      <<"A", "l", "l", "o", "w", "a", "n", "c", "e", " ", "t", "o", "o", " ", "l", "o", "w">>,
      <<"N", "O", "T", " ", "E", "N", "O", "U", "G", "H", " ", "B", "A", "L", "A", "N", "C", "E">>,
      <<"n", "o", "t", " ", "e", "n", "o", "u", "g", "h", " ", "l", "i", "q", "u", "i", "d", "i", "t", "y">> }

\* what clob_client.post_order may answer: success, or a rejection with an error text
Responses ==
    {[kind |-> "filled", message |-> <<>>]}
    \cup {[kind |-> "rejected", message |-> m] : m \in ErrorMessages}

----------------------------------------------------------------------------
(* utils/post_order.py.  Each operator gives the frame (w) and the ledger  *)
(* (l) that a piece of post_order leaves.                                  *)

\* user_activity.update_one({"_id": trade["_id"]}, {"$set": {"bot": True}})
Processed(l, id) == SetField(l, id, "bot", TRUE)

\* ... {"$set": {"bot": True, "botExcutedTime": attempts}}
ProcessedWith(l, id, attempts) ==
    SetField(SetField(l, id, "bot", TRUE), id, "botExcutedTime", attempts)

\* ... {"$set": {"myBoughtSize": tokens}}
Bought(l, id, tokens) == SetField(l, id, "myBoughtSize", tokens)

\* an early return of post_order, after the update_one that gave l; writes counts
\* the update_one calls of the call on the trade's record
Return(w, l) == [w |-> [w EXCEPT !.pc = "done", !.writes = @ + 1], l |-> l]

\* the best bid: max(bids, key=price); the best ask: min(asks, key=price)
BestBid(bids) ==
    bids[CHOOSE n \in DOMAIN bids :
            /\ \A m \in DOMAIN bids : bids[m].price <= bids[n].price
            /\ \A m \in 1 .. (n - 1) : bids[m].price < bids[n].price]

\* the first level of the book, whatever its price
FirstAsk(asks) == asks[1]

\* lines 188-190: min_ask
BestAsk(asks) ==
    asks[CHOOSE n \in DOMAIN asks :
            /\ \A m \in DOMAIN asks : asks[m].price >= asks[n].price
            /\ \A m \in 1 .. (n - 1) : asks[m].price > asks[n].price]

\* a rejection that uses up no retry
RejectedUncounted(w, resp) ==
    IF RaisesInsufficientFunds(ExtractOrderError(resp))
    THEN [w EXCEPT !.abort_due_to_funds = TRUE, !.pc = "after"]
    ELSE w

\* lines 240-256 (buy), 102-118 (merge), 438-454 (sell): the order was not filled
Rejected(w, resp) ==
    IF RaisesInsufficientFunds(ExtractOrderError(resp))
    THEN [w EXCEPT !.abort_due_to_funds = TRUE, !.pc = "after"]
    ELSE [w EXCEPT !.retry = @ + 1]

\* an order of `amount` at `price` was submitted and answered by resp; fails
\* counts the submissions in a row that were not filled, filled adds up the
\* amounts of the orders that were filled
Submitted(w, amount, price, resp) ==
    [w EXCEPT !.orders = @ + 1, !.submitted = @ + amount, !.amount = amount,
              !.price = price, !.last = resp,
              !.fails = IF resp.kind = "filled" THEN 0 ELSE @ + 1,
              !.filled = IF resp.kind = "filled" THEN @ + amount ELSE @]

\* a walk that counts the stop as a failed attempt and goes on
KeepWalking(w, why) ==
    [w EXCEPT !.retry = @ + 1, !.last = [kind |-> why, message |-> <<>>],
              !.writes = @ + 1]

\* a break that submits nothing, after its update_one on the trade's record
Break(w, why) ==
    [w EXCEPT !.pc = "after", !.last = [kind |-> why, message |-> <<>>],
              !.writes = @ + 1]

(* merge *)

\* lines 47-69
EnterMerge(w, l) ==
    IF ~w.my_position.some THEN Return(w, Processed(l, w.trade.id))
    ELSE IF w.my_position.size < MIN_ORDER_SIZE_TOKENS
         THEN Return(w, Processed(l, w.trade.id))
         ELSE [w |-> [w EXCEPT !.pc = "loop", !.remaining = w.my_position.size], l |-> l]

\* lines 70-118: one iteration of the merge walk
IterateMerge(w, l, bids, resp) ==
    IF bids = <<>>
    THEN [w |-> Break(w, "empty"), l |-> Processed(l, w.trade.id)]
    ELSE LET max_bid == BestBid(bids)
             amount  == IF w.remaining <= max_bid.size THEN w.remaining ELSE max_bid.size
             sent    == Submitted(w, amount, max_bid.price, resp)
         IN  IF resp.kind = "filled"
             THEN [w |-> [sent EXCEPT !.retry = 0, !.remaining = @ - amount], l |-> l]
             ELSE [w |-> Rejected(sent, resp), l |-> l]

\* lines 120-136, 483-499: the record's terminal state after a merge or sell walk
FinishSelling(w, l) ==
    IF w.abort_due_to_funds THEN ProcessedWith(l, w.trade.id, RETRY_LIMIT)
    ELSE IF w.retry >= RETRY_LIMIT THEN ProcessedWith(l, w.trade.id, w.retry)
    ELSE Processed(l, w.trade.id)

(* buy *)

\* lines 143-172
EnterBuy(w, l) ==
    LET current_position_value ==
            IF w.my_position.some
            THEN Mul(w.my_position.size, w.my_position.avgPrice) ELSE 0
        order_calc == CalculateOrderSize(env.config, w.trade.usdcSize, w.my_balance,
                                         current_position_value)
    IN  IF order_calc.final_amount = 0
        THEN Return(w, Processed(l, w.trade.id))
        ELSE [w |-> [w EXCEPT !.pc = "loop", !.remaining = order_calc.final_amount],
              l |-> l]

\* a walk that buys at any price
SlippageIgnored(price, trade_price) == FALSE

\* line 194: the best ask is more than the tolerance above the trade's price
SlippageTooHigh(price, trade_price) == price - MAX_PRICE_SLIPPAGE > trade_price

\* lines 175-256: one iteration of the buy walk
IterateBuy(w, l, asks, resp) ==
    IF asks = <<>>
    THEN [w |-> Break(w, "empty"), l |-> Processed(l, w.trade.id)]
    ELSE LET min_ask == BestAsk(asks)
             price   == min_ask.price
         IN  IF SlippageTooHigh(price, w.trade.price)
             THEN [w |-> Break(w, "slippage"), l |-> Processed(l, w.trade.id)]
             ELSE IF w.remaining < MIN_ORDER_SIZE_USD
             THEN [w |-> Break(w, "dust"),
                   l |-> Bought(Processed(l, w.trade.id), w.trade.id, w.total_tokens)]
             ELSE LET order_size == Min2(w.remaining, Mul(min_ask.size, price))
                      sent       == Submitted(w, order_size, price, resp)
                  IN  IF resp.kind = "filled"
                      THEN [w |-> [sent EXCEPT !.retry = 0,
                                               !.total_tokens = @ + Div(order_size, price),
                                               !.remaining = @ - order_size],
                            l |-> l]
                      ELSE [w |-> Rejected(sent, resp), l |-> l]

\* lines 258-291
FinishBuy(w, l) ==
    Bought(IF w.abort_due_to_funds THEN ProcessedWith(l, w.trade.id, RETRY_LIMIT)
           ELSE IF w.retry >= RETRY_LIMIT THEN ProcessedWith(l, w.trade.id, w.retry)
           ELSE Processed(l, w.trade.id),
           w.trade.id, w.total_tokens)

(* sell *)

\* the filter of lines 305-315 and 459-466: a tracked purchase of the trade's asset
IsTrackedBuy(r, trade) ==
    /\ Attr(r.hash).asset = trade.asset
    /\ Attr(r.hash).conditionId = trade.conditionId
    /\ Attr(r.hash).side = "BUY"
    /\ r.bot = TRUE
    /\ r.myBoughtSize > 0

RECURSIVE PreviousBuys(_, _, _)
\* lines 305-315: previous_buys, from record i on
PreviousBuys(l, i, trade) ==
    IF i > Len(l) THEN <<>>
    ELSE IF IsTrackedBuy(l[i], trade)
         THEN <<[id |-> i, myBoughtSize |-> l[i].myBoughtSize]>>
              \o PreviousBuys(l, i + 1, trade)
         ELSE PreviousBuys(l, i + 1, trade)

RECURSIVE SumBought(_)
\* lines 317-319
SumBought(buys) ==
    IF buys = <<>> THEN 0 ELSE Head(buys).myBoughtSize + SumBought(Tail(buys))

\* a base sell size that ignores the tracked purchases
BaseSellFromPosition(w, total_bought_tokens) ==
    Mul(w.my_position.size, Div(w.trade.size, w.user_position.size + w.trade.size))

\* lines 332-352: base_sell_size when the trader still holds a position
BaseSellSize(w, total_bought_tokens) ==
    LET trade_size             == w.trade.size
        trader_position_before == w.user_position.size + trade_size
        trader_sell_percent    == IF trader_position_before # 0
                                  THEN Div(trade_size, trader_position_before) ELSE 0
    IN  IF total_bought_tokens > 0
        THEN Mul(total_bought_tokens, trader_sell_percent)
        ELSE Mul(w.my_position.size, trader_sell_percent)

\* lines 332-355: the sell size when the trader still holds a position
ProportionalSell(w, total_bought_tokens) ==
    Mul(BaseSellSize(w, total_bought_tokens),
        GetTradeMultiplier(env.config, w.trade.usdcSize))

\* a sell size that is not capped
SellUncapped(remaining, max_position) == remaining

\* lines 372-378: never sell more than the position
CapAtPositionSize(remaining, max_position) ==
    IF remaining > max_position THEN max_position ELSE remaining

\* lines 295-385
EnterSell(w, l) ==
    IF ~w.my_position.some THEN Return(w, Processed(l, w.trade.id))
    ELSE LET previous_buys       == PreviousBuys(l, 1, w.trade)
             total_bought_tokens == SumBought(previous_buys)
             remaining           == IF ~w.user_position.some THEN w.my_position.size
                                    ELSE ProportionalSell(w, total_bought_tokens)
             base_sell_size      == IF ~w.user_position.some THEN 0
                                    ELSE BaseSellSize(w, total_bought_tokens)
         IN  IF remaining < MIN_ORDER_SIZE_TOKENS
             THEN Return([w EXCEPT !.base_sell_size = base_sell_size],
                         Processed(l, w.trade.id))
             ELSE [w |-> [w EXCEPT
                            !.pc = "loop",
                            !.previous_buys = previous_buys,
                            !.total_bought_tokens = total_bought_tokens,
                            !.base_sell_size = base_sell_size,
                            !.remaining = CapAtPositionSize(remaining, w.my_position.size)],
                   l |-> l]

\* lines 386-454: one iteration of the sell walk
IterateSell(w, l, bids, resp) ==
    IF bids = <<>>
    THEN [w |-> Break(w, "empty"), l |-> Processed(l, w.trade.id)]
    ELSE IF w.remaining < MIN_ORDER_SIZE_TOKENS
    THEN [w |-> Break(w, "dust"), l |-> Processed(l, w.trade.id)]
    ELSE LET max_bid     == BestBid(bids)
             sell_amount == Min2(w.remaining, max_bid.size)
             sent        == Submitted(w, sell_amount, max_bid.price, resp)
         IN  IF sell_amount < MIN_ORDER_SIZE_TOKENS
             THEN [w |-> Break(w, "dust"), l |-> Processed(l, w.trade.id)]
             ELSE IF resp.kind = "filled"
             THEN [w |-> [sent EXCEPT !.retry = 0,
                                      !.total_tokens = @ + sell_amount,
                                      !.remaining = @ - sell_amount],
                   l |-> l]
             ELSE [w |-> Rejected(sent, resp), l |-> l]

\* a sell that deletes the records of the tracked purchases it sold from
ForgetTracking(w, l) ==
    IF w.total_tokens > 0 /\ w.total_bought_tokens > 0
    THEN SelectSeq(l, LAMBDA r : ~IsTrackedBuy(r, w.trade))
    ELSE l

\* a sell that clears the tracked purchases however little it sold
ClearTracking(w, l) ==
    IF w.total_tokens > 0 /\ w.total_bought_tokens > 0
    THEN [i \in DOMAIN l |->
            IF IsTrackedBuy(l[i], w.trade) THEN [l[i] EXCEPT !.myBoughtSize = 0]
            ELSE l[i]]
    ELSE l

\* lines 456-481: the tracked purchases after a sell
UpdateTracking(w, l) ==
    IF w.total_tokens > 0 /\ w.total_bought_tokens > 0
    THEN LET sell_percentage == Div(w.total_tokens, w.total_bought_tokens)
         IN  IF sell_percentage >= 99
             THEN [i \in DOMAIN l |->
                     IF IsTrackedBuy(l[i], w.trade)
                     THEN [l[i] EXCEPT !.myBoughtSize = 0] ELSE l[i]]
             ELSE [i \in DOMAIN l |->
                     IF \E n \in DOMAIN w.previous_buys : w.previous_buys[n].id = i
                     THEN LET buy == w.previous_buys[
                                        CHOOSE n \in DOMAIN w.previous_buys :
                                            w.previous_buys[n].id = i]
                          IN  [l[i] EXCEPT !.myBoughtSize =
                                  Mul(buy.myBoughtSize, SCALE - sell_percentage)]
                     ELSE l[i]]
    ELSE l

(* post_order *)

\* post_order from its first statement to the first loop test or an early return
Enter(w, l) ==
    CASE w.condition = "merge" -> EnterMerge(w, l)
      [] w.condition = "buy"   -> EnterBuy(w, l)
      [] w.condition = "sell"  -> EnterSell(w, l)

\* the loop test of the three walks: remaining > 0 and retry < RETRY_LIMIT
Looping(w) == w.pc = "loop" /\ w.remaining > 0 /\ w.retry < RETRY_LIMIT

\* one iteration: read the book, submit at most one order
Iterate(w, l, levels, resp) ==
    CASE w.condition = "merge" -> IterateMerge(w, l, levels, resp)
      [] w.condition = "buy"   -> IterateBuy(w, l, levels, resp)
      [] w.condition = "sell"  -> IterateSell(w, l, levels, resp)

\* the code after the loop
Finish(w, l) ==
    CASE w.condition = "merge" -> FinishSelling(w, l)
      [] w.condition = "buy"   -> FinishBuy(w, l)
      [] w.condition = "sell"  -> FinishSelling(w, UpdateTracking(w, l))

----------------------------------------------------------------------------
(* post_order as steps                                                     *)

\* post_order runs up to its loop, or returns early
O_Enter ==
    /\ walk.pc = "call"
    /\ LET r == Enter(walk, ledger)
       IN  walk' = r.w /\ ledger' = r.l
    /\ UNCHANGED <<now, mon, exe, buffer, env, hist, calc, running>>

\* one iteration of the walk, for some content of the book and some answer; a
\* walk is followed for MaxOrders orders
O_Iterate ==
    /\ Looping(walk)
    /\ walk.orders < MaxOrders
    /\ \E levels \in env.books, resp \in env.responses :
          LET r == Iterate(walk, ledger, levels, resp)
          IN  /\ walk' = r.w
              /\ ledger' = r.l
              /\ hist' = IF r.w.orders > walk.orders
                         THEN [hist EXCEPT !.ordered = @ \cup walk.members]
                         ELSE hist
    /\ UNCHANGED <<now, mon, exe, buffer, env, calc, running>>

\* the loop has ended (by its test or by a break): the terminal write, then return
O_Finish ==
    /\ walk.pc = "after" \/ (walk.pc = "loop" /\ ~Looping(walk))
    /\ ledger' = Finish(walk, ledger)
    /\ walk' = [walk EXCEPT !.pc = "done", !.writes = @ + 1]
    /\ UNCHANGED <<now, mon, exe, buffer, env, hist, calc, running>>

\* the call raises: the TypeError of a call with the ninth argument that
\* trade_executor passes and post_order does not declare, or an exception of
\* a database or clob_client call before or inside the walk
O_Raise ==
    /\ walk.pc \in {"call", "loop"}
    /\ walk' = [walk EXCEPT !.pc = "raised"]
    /\ UNCHANGED <<ledger, now, mon, exe, buffer, env, hist, calc, running>>

----------------------------------------------------------------------------
(* services/trade_executor.py: the loop                                    *)

NoData == [my_position |-> NoPosition, user_position |-> NoPosition, my_balance |-> 0]

NoCurrent == [ids |-> {}, agg |-> FALSE, trade |-> NoTrade]

ExecutorIdle ==
    [ pc |-> "loop", sleep |-> 0, trades |-> <<>>, i |-> 0, ready |-> <<>>, j |-> 0,
      cur |-> NoCurrent ]

\* _execute_single_trade is entered for `trade`
Single(trade) == [ids |-> {trade.id}, agg |-> FALSE, trade |-> trade]

\* _do_aggregated_trading, lines 233-237: the synthetic trade of a group
Group(agg) ==
    [ ids   |-> IdsOf(agg.trades),
      agg   |-> TRUE,
      trade |-> [agg.trades[1] EXCEPT !.usdcSize = agg.total_usdc_size,
                                      !.price = agg.average_price,
                                      !.side = agg.side] ]

\* lines 320-322: the pass is over; sleep
EndPass == [ExecutorIdle EXCEPT !.sleep = EXECUTOR_SLEEP]

\* line 281: the trade goes to the aggregation buffer
NeedsAggregation(trade) ==
    trade.side = "BUY" /\ trade.usdcSize < TRADE_AGGREGATION_MIN_TOTAL_USD

\* line 273, aggregation disabled: read the unprocessed trades, start _do_trading
E_Read ==
    /\ exe.pc = "loop"
    /\ exe.sleep = 0
    /\ running.executor
    /\ ~env.aggregation
    /\ LET ids    == ReadTempTrades
           trades == [n \in DOMAIN ids |-> TradeOf(ids[n])]
       IN  exe' = IF trades = <<>> THEN EndPass
                  ELSE [exe EXCEPT !.pc = "mark", !.trades = trades, !.i = 1,
                                   !.cur = Single(trades[1])]
    /\ UNCHANGED <<ledger, now, mon, buffer, walk, env, hist, calc, running>>

\* line 273, aggregation enabled: read the unprocessed trades, start partitioning
E_ReadAgg ==
    /\ exe.pc = "loop"
    /\ exe.sleep = 0
    /\ running.executor
    /\ env.aggregation
    /\ LET ids == ReadTempTrades
       IN  exe' = [exe EXCEPT !.pc = "partition", !.i = 1,
                              !.trades = [n \in DOMAIN ids |-> TradeOf(ids[n])]]
    /\ UNCHANGED <<ledger, now, mon, buffer, walk, env, hist, calc, running>>

\* lines 279-285: a small BUY goes to the buffer
E_Buffer ==
    /\ exe.pc = "partition"
    /\ exe.i <= Len(exe.trades)
    /\ NeedsAggregation(exe.trades[exe.i])
    /\ buffer' = AddToAggregationBuffer(buffer, exe.trades[exe.i])
    /\ exe' = [exe EXCEPT !.i = @ + 1]
    /\ UNCHANGED <<ledger, now, mon, walk, env, hist, calc, running>>

\* lines 286-289: any other trade is executed at once
E_Immediate ==
    /\ exe.pc = "partition"
    /\ exe.i <= Len(exe.trades)
    /\ ~NeedsAggregation(exe.trades[exe.i])
    /\ exe' = [exe EXCEPT !.pc = "mark", !.cur = Single(exe.trades[exe.i])]
    /\ UNCHANGED <<ledger, now, mon, buffer, walk, env, hist, calc, running>>

\* lines 292-299: _ready_aggregated_trades, then _do_aggregated_trading if any
E_Ready ==
    /\ exe.pc = "partition"
    /\ exe.i > Len(exe.trades)
    /\ ledger' = MarkDiscarded(ledger, buffer)
    /\ buffer' = RemainingGroups(buffer)
    /\ LET ready == ReadyGroups(buffer)
       IN  exe' = IF ready = <<>> THEN EndPass
                  ELSE [exe EXCEPT !.pc = "mark", !.ready = ready, !.j = 1,
                                   !.cur = Group(ready[1])]
    /\ UNCHANGED <<now, mon, walk, env, hist, calc, running>>

\* lines 168 and 221-223: botExcutedTime = 1 for the trade, or each trade of the group
E_Mark ==
    /\ exe.pc = "mark"
    /\ ledger' = [i \in DOMAIN ledger |->
                    IF i \in exe.cur.ids THEN [ledger[i] EXCEPT !.botExcutedTime = 1]
                    ELSE ledger[i]]
    /\ exe' = [exe EXCEPT !.pc = "prepare"]
    /\ UNCHANGED <<now, mon, buffer, walk, env, hist, calc, running>>

\* lines 184-200 and 229-250: _prepare_trade_data returns what the APIs answer,
\* and post_order is called
E_Prepare ==
    /\ exe.pc = "prepare"
    /\ \E data \in env.data :
          walk' = CallFrame(IF exe.cur.trade.side = "BUY" THEN "buy" ELSE "sell",
                            exe.cur.trade, data, exe.cur.ids)
    /\ exe' = [exe EXCEPT !.pc = "post"]
    /\ hist' = [hist EXCEPT !.posted =
                  [i \in DOMAIN @ |-> IF i \in exe.cur.ids THEN @[i] + 1 ELSE @[i]]]
    /\ UNCHANGED <<ledger, now, mon, buffer, env, calc, running>>

\* _prepare_trade_data raises (fetch_data re-raises after its retries); neither
\* _execute_single_trade nor _do_aggregated_trading catches it
E_PrepareRaises ==
    /\ exe.pc = "prepare"
    /\ exe' = [exe EXCEPT !.pc = "dead"]
    /\ UNCHANGED <<ledger, now, mon, buffer, walk, env, hist, calc, running>>

\* what the loop does after a trade or a group
Continue ==
    IF exe.cur.agg
    THEN IF exe.j < Len(exe.ready)
         THEN [exe EXCEPT !.pc = "mark", !.j = @ + 1, !.cur = Group(exe.ready[exe.j + 1])]
         ELSE EndPass
    ELSE IF env.aggregation
         THEN [exe EXCEPT !.pc = "partition", !.i = @ + 1, !.cur = NoCurrent]
         ELSE IF exe.i < Len(exe.trades)
              THEN [exe EXCEPT !.pc = "mark", !.i = @ + 1,
                               !.cur = Single(exe.trades[exe.i + 1])]
              ELSE EndPass

\* post_order has returned
E_Return ==
    /\ exe.pc = "post"
    /\ walk.pc = "done"
    /\ walk' = WalkIdle
    /\ exe' = Continue
    /\ UNCHANGED <<ledger, now, mon, buffer, env, hist, calc, running>>

\* post_order has raised in _execute_single_trade: lines 201-203 record bot = True
E_Caught ==
    /\ exe.pc = "post"
    /\ walk.pc = "raised"
    /\ ~exe.cur.agg
    /\ ledger' = Processed(ledger, exe.cur.trade.id)
    /\ walk' = WalkIdle
    /\ exe' = Continue
    /\ UNCHANGED <<now, mon, buffer, env, hist, calc, running>>

\* post_order has raised in _do_aggregated_trading: nothing catches it and
\* the executor thread ends
E_Uncaught ==
    /\ exe.pc = "post"
    /\ walk.pc = "raised"
    /\ exe.cur.agg
    /\ walk' = WalkIdle
    /\ exe' = [exe EXCEPT !.pc = "dead"]
    /\ UNCHANGED <<ledger, now, mon, buffer, env, hist, calc, running>>

----------------------------------------------------------------------------
(* The world outside: configurations, feeds, books, balances               *)

\* CopyStrategyConfig with the defaults of the dataclass and copy_size 100%
BaseConfig ==
    [ strategy |-> "PERCENTAGE", copy_size |-> 100 * SCALE,
      adaptive_min_percent |-> None, adaptive_max_percent |-> None,
      adaptive_threshold |-> None, tiered_multipliers |-> <<>>,
      trade_multiplier |-> None,
      max_order_size_usd |-> 100 * SCALE, min_order_size_usd |-> 1 * SCALE,
      max_position_size_usd |-> None, max_daily_volume_usd |-> None ]

Activity(timestamp, side, usdcSize, price, asset) ==
    [ timestamp |-> timestamp, type |-> "TRADE", side |-> side,
      usdcSize |-> usdcSize, price |-> price, size |-> Div(usdcSize, price),
      asset |-> asset, conditionId |-> "M", user |-> 1 ]

\* a feed with a trade too old at boot, one made shortly before boot, one made after
HistoryFeed ==
    << Activity(0 - TOO_OLD - 1, "BUY", 200, 50, "YES"),
       Activity(0 - 1, "BUY", 200, 50, "YES"),
       Activity(1, "SELL", 100, 50, "YES") >>

\* a buy an earlier run was executing when it stopped, a small buy that nothing
\* joins, a sell above the aggregation threshold
LoneBuyFeed ==
    << Activity(0 - 1, "BUY", 200, 50, "NO"),
       Activity(0, "BUY", 50, 50, "YES"),
       Activity(1, "SELL", 100, 50, "NO") >>

\* three small buys of the same outcome token within one window, and a sell
SmallBuysFeed ==
    << Activity(0, "BUY", 50, 40, "YES"),
       Activity(0, "BUY", 50, 50, "YES"),
       Activity(1, "BUY", 50, 60, "YES"),
       Activity(1, "SELL", 100, 50, "NO") >>

Position(size, avgPrice) == [some |-> TRUE, size |-> size, avgPrice |-> avgPrice]

Level(price, size) == [price |-> price, size |-> size]

\* what the position and balance APIs may answer in the scheduler specifications
FewData ==
    [ my_position   : {Position(400, 50)},
      user_position : {Position(400, 50)},
      my_balance    : {1000} ]

\* the side of the book a walk reads, in the scheduler specifications
FewBooks == { <<>>, <<Level(50, 400)>> }

FewResponses ==
    { [kind |-> "filled", message |-> <<>>],
      [kind |-> "rejected", message |-> NotEnoughBalanceText],
      [kind |-> "rejected", message |-> <<>>] }

NoCalc == [pc |-> "off"]

\* _is_running = True in both modules
Running == [monitor |-> TRUE, executor |-> TRUE]

NoHistory ==
    [ pre |-> {}, stale |-> {}, again |-> FALSE, ordered |-> {},
      posted |-> [i \in 1 .. MaxLedger |-> 0] ]

Record(h, bot, botExcutedTime, myBoughtSize) ==
    [hash |-> h, bot |-> bot, botExcutedTime |-> botExcutedTime,
     myBoughtSize |-> myBoughtSize]

\* the ledgers an earlier run can have left: records of trades made before boot,
\* unprocessed or done
OldLedgers ==
    { <<>>,
      <<Record(1, FALSE, 0, NoSize)>>,
      <<Record(1, FALSE, 0, NoSize), Record(2, FALSE, 0, NoSize)>>,
      <<Record(1, TRUE, 0, 400), Record(2, FALSE, 0, NoSize)>> }

\* the ids of the records that are unprocessed
Unprocessed(l) == {i \in DOMAIN l : ~l[i].bot /\ l[i].botExcutedTime = 0}

----------------------------------------------------------------------------
(* Spec: main() with aggregation disabled.  Both threads start together.   *)

Init ==
    /\ env = [ aggregation |-> FALSE, config |-> BaseConfig, feed |-> HistoryFeed,
               data |-> FewData, books |-> FewBooks, responses |-> FewResponses,
               horizon |-> MaxTime ]
    /\ ledger \in OldLedgers
    /\ now = 0
    /\ mon = [pc |-> "start", cutoff_ts |-> 0, sleep |-> 0]
    /\ exe = ExecutorIdle
    /\ buffer = <<>>
    /\ walk = WalkIdle
    /\ hist = [NoHistory EXCEPT !.pre = Unprocessed(ledger)]
    /\ calc = NoCalc
    /\ running = Running

Monitor ==
    \/ M_FirstRun
    \/ M_BeginCycle
    \/ \E h \in Hashes : M_ProcessNewTrade(h)
    \/ M_EndCycle

PostOrder ==
    \/ O_Enter
    \/ O_Iterate
    \/ O_Finish
    \/ O_Raise

Next ==
    \/ Tick
    \/ Monitor
    \/ E_Read
    \/ E_Mark
    \/ E_Prepare
    \/ E_PrepareRaises
    \/ E_Return
    \/ E_Caught
    \/ PostOrder

Spec == Init /\ [][Next]_vars

----------------------------------------------------------------------------
(* SpecAgg: main() with TRADE_AGGREGATION_ENABLED.  The ledger holds the    *)
(* record of a buy that an earlier run had marked in flight when it stopped *)

AggEnv(feed, horizon) ==
    [ aggregation |-> TRUE, config |-> BaseConfig, feed |-> feed,
      data |-> FewData, books |-> FewBooks, responses |-> FewResponses,
      horizon |-> horizon ]

InitAgg ==
    /\ env = AggEnv(LoneBuyFeed, MaxTimeAgg)
    /\ ledger = <<Record(1, FALSE, 1, NoSize)>>
    /\ now = 0
    /\ mon = [pc |-> "start", cutoff_ts |-> 0, sleep |-> 0]
    /\ exe = ExecutorIdle
    /\ buffer = <<>>
    /\ walk = WalkIdle
    /\ hist = NoHistory
    /\ calc = NoCalc
    /\ running = Running

NextAgg ==
    \/ Tick
    \/ Monitor
    \/ E_ReadAgg
    \/ E_Buffer
    \/ E_Immediate
    \/ E_Ready
    \/ E_Mark
    \/ E_Prepare
    \/ E_PrepareRaises
    \/ E_Return
    \/ E_Caught
    \/ E_Uncaught
    \/ PostOrder

SpecAgg == InitAgg /\ [][NextAgg]_vars

----------------------------------------------------------------------------
(* SpecBuys: main() with TRADE_AGGREGATION_ENABLED, an empty ledger and a   *)
(* trader who makes three small buys of one outcome token                   *)

InitBuys ==
    /\ env = AggEnv(SmallBuysFeed, MaxTimeBuys)
    /\ ledger = <<>>
    /\ now = 0
    /\ mon = [pc |-> "start", cutoff_ts |-> 0, sleep |-> 0]
    /\ exe = ExecutorIdle
    /\ buffer = <<>>
    /\ walk = WalkIdle
    /\ hist = NoHistory
    /\ calc = NoCalc
    /\ running = Running

SpecBuys == InitBuys /\ [][NextAgg]_vars

----------------------------------------------------------------------------
(* SpecWindow: main() with TRADE_AGGREGATION_ENABLED, an empty ledger and a *)
(* trader who makes two small buys of one outcome token, a tick apart       *)

\* two small buys with the same aggregation key, and a sell
WindowFeed ==
    << Activity(0, "BUY", 50, 50, "YES"),
       Activity(1, "BUY", 50, 50, "YES"),
       Activity(1, "SELL", 100, 50, "NO") >>

InitWindow ==
    /\ env = AggEnv(WindowFeed, MaxTimeWindow)
    /\ ledger = <<>>
    /\ now = 0
    /\ mon = [pc |-> "start", cutoff_ts |-> 0, sleep |-> 0]
    /\ exe = ExecutorIdle
    /\ buffer = <<>>
    /\ walk = WalkIdle
    /\ hist = NoHistory
    /\ calc = NoCalc
    /\ running = Running

SpecWindow == InitWindow /\ [][NextAgg]_vars

----------------------------------------------------------------------------
(* SpecOrder: one call of post_order, for every condition, position,       *)
(* balance, multiplier, book and answer of the exchange                    *)

\* the trade to copy and an earlier buy of the same outcome token
BuyFeed ==
    << Activity(0, "BUY", 200, 50, "YES"), Activity(0 - 1, "BUY", 400, 50, "YES") >>

SellFeed ==
    << Activity(0, "SELL", 100, 50, "YES"), Activity(0 - 1, "BUY", 400, 50, "YES") >>

\* the calls: post_order(clob_client, condition, ..., trade, ...)
Calls ==
    { [condition |-> "buy", feed |-> BuyFeed],
      [condition |-> "sell", feed |-> SellFeed],
      [condition |-> "merge", feed |-> SellFeed] }

\* the trade's record, in flight, and the record of the earlier buy: untracked,
\* or tracked with 8 bought tokens
OrderLedgers ==
    { <<Record(1, FALSE, 1, NoSize), Record(2, TRUE, 0, m)>> : m \in {NoSize, 800} }

\* the operator holds nothing or 4 tokens; the trader nothing, an emptied
\* position or 4 tokens; the balance is $10
OrderData ==
    [ my_position   : {NoPosition, Position(400, 50)},
      user_position : {NoPosition, Position(0, 50), Position(400, 50)},
      my_balance    : {1000} ]

\* no multiplier, and TRADE_MULTIPLIER = 2.0
OrderConfigs == {BaseConfig, [BaseConfig EXCEPT !.trade_multiplier = 2 * SCALE]}

\* an empty side, one level, two levels
OrderBooks == { <<>>, <<Level(50, 400)>>, <<Level(50, 100), Level(48, 400)>> }

InitOrder ==
    /\ \E call \in Calls, config \in OrderConfigs, data \in OrderData :
          /\ env = [ aggregation |-> FALSE, config |-> config, feed |-> call.feed,
                     data |-> {data}, books |-> OrderBooks, responses |-> Responses,
                     horizon |-> 0 ]
          /\ walk = CallFrame(call.condition,
                              LET a == call.feed[1]
                              IN  [ id |-> 1, side |-> a.side, size |-> a.size,
                                    usdcSize |-> a.usdcSize, price |-> a.price,
                                    asset |-> a.asset, conditionId |-> a.conditionId ],
                              data, {1})
    /\ ledger \in OrderLedgers
    /\ now = 0
    /\ mon = [pc |-> "off", cutoff_ts |-> 0, sleep |-> 0]
    /\ exe = [ExecutorIdle EXCEPT !.pc = "post"]
    /\ buffer = <<>>
    /\ hist = NoHistory
    /\ calc = NoCalc
    /\ running = Running

SpecOrder == InitOrder /\ [][PostOrder]_vars

----------------------------------------------------------------------------
(* SpecSlip: one call of post_order for a BUY of $2.00 at $0.50, for asks   *)
(* below, at and above the trade's price plus the slippage tolerance        *)

\* the trade to copy
SlipFeed == << Activity(0, "BUY", 200, 50, "YES") >>

\* no asks; a best ask at the trade's price, 4 cents above it, at the bound and
\* 1 cent above the bound; the best ask behind a dearer level; books that can
\* fill only a part of the order
SlipBooks ==
    { <<>>,
      <<Level(50, 400)>>,
      <<Level(54, 100)>>,
      <<Level(55, 400)>>,
      <<Level(56, 400)>>,
      <<Level(60, 400), Level(55, 100)>>,
      <<Level(60, 400), Level(56, 100)>> }

InitSlip ==
    /\ \E data \in [ my_position   : {NoPosition, Position(400, 50)},
                     user_position : {Position(400, 50)},
                     my_balance    : {1000} ] :
          /\ env = [ aggregation |-> FALSE, config |-> BaseConfig, feed |-> SlipFeed,
                     data |-> {data}, books |-> SlipBooks, responses |-> FewResponses,
                     horizon |-> 0 ]
          /\ walk = CallFrame("buy",
                              LET a == SlipFeed[1]
                              IN  [ id |-> 1, side |-> a.side, size |-> a.size,
                                    usdcSize |-> a.usdcSize, price |-> a.price,
                                    asset |-> a.asset, conditionId |-> a.conditionId ],
                              data, {1})
    /\ ledger = <<Record(1, FALSE, 1, NoSize)>>
    /\ now = 0
    /\ mon = [pc |-> "off", cutoff_ts |-> 0, sleep |-> 0]
    /\ exe = [ExecutorIdle EXCEPT !.pc = "post"]
    /\ buffer = <<>>
    /\ hist = NoHistory
    /\ calc = NoCalc
    /\ running = Running

SpecSlip == InitSlip /\ [][PostOrder]_vars

\* SpecDaily: the same call with MAX_DAILY_VOLUME_USD set to $1.00 or $3.00

DailyConfigs ==
    { [BaseConfig EXCEPT !.max_daily_volume_usd = 1 * SCALE],
      [BaseConfig EXCEPT !.max_daily_volume_usd = 3 * SCALE] }

InitDaily ==
    /\ \E config \in DailyConfigs :
          env = [ aggregation |-> FALSE, config |-> config, feed |-> SlipFeed,
                  data |-> FewData, books |-> OrderBooks, responses |-> Responses,
                  horizon |-> 0 ]
    /\ walk = CallFrame("buy",
                        LET a == SlipFeed[1]
                        IN  [ id |-> 1, side |-> a.side, size |-> a.size,
                              usdcSize |-> a.usdcSize, price |-> a.price,
                              asset |-> a.asset, conditionId |-> a.conditionId ],
                        CHOOSE data \in FewData : TRUE, {1})
    /\ ledger = <<Record(1, FALSE, 1, NoSize)>>
    /\ now = 0
    /\ mon = [pc |-> "off", cutoff_ts |-> 0, sleep |-> 0]
    /\ exe = [ExecutorIdle EXCEPT !.pc = "post"]
    /\ buffer = <<>>
    /\ hist = NoHistory
    /\ calc = NoCalc
    /\ running = Running

SpecDaily == InitDaily /\ [][PostOrder]_vars

----------------------------------------------------------------------------
(* SpecBalance: _execute_single_trade prepares one BUY of $8.00 from the    *)
(* operator's wallet (cash and positions) and calls post_order              *)

\* a position as the positions API returns it
Holding(asset, conditionId, size, avgPrice, currentValue) ==
    [asset |-> asset, conditionId |-> conditionId, size |-> size,
     avgPrice |-> avgPrice, currentValue |-> currentValue]

RECURSIVE SumCurrentValue(_)
\* sum(float(pos.get("currentValue") or 0) for pos in positions_list)
SumCurrentValue(positions_list) ==
    IF positions_list = <<>> THEN 0
    ELSE Head(positions_list).currentValue + SumCurrentValue(Tail(positions_list))

\* fetch_my_positions_and_balance: (positions_list, usdc_balance, total_balance)
FetchMyPositionsAndBalance(positions_list, usdc_balance) ==
    [ positions_list |-> positions_list,
      usdc_balance   |-> usdc_balance,
      total_balance  |-> usdc_balance + SumCurrentValue(positions_list) ]

\* find_position_by_condition_id
FindPositionByConditionId(positions, condition_id) ==
    IF \E n \in DOMAIN positions : positions[n].conditionId = condition_id
    THEN LET n == CHOOSE n \in DOMAIN positions :
                     /\ positions[n].conditionId = condition_id
                     /\ \A m \in 1 .. (n - 1) : positions[m].conditionId # condition_id
         IN  Position(positions[n].size, positions[n].avgPrice)
    ELSE NoPosition

\* _prepare_trade_data, for what the positions API and balanceOf answer
PrepareTradeData(wallet, trade) ==
    LET mine == FetchMyPositionsAndBalance(wallet.my_positions, wallet.usdc_balance)
    IN  [ my_position   |-> FindPositionByConditionId(mine.positions_list,
                                                      trade.conditionId),
          user_position |-> FindPositionByConditionId(wallet.user_positions,
                                                      trade.conditionId),
          my_balance    |-> mine.total_balance ]

\* the trade to copy
BalanceFeed == << Activity(0, "BUY", 800, 50, "YES") >>

\* the operator has no cash, $3 or $10, and holds nothing, 4 tokens of the
\* trade's market worth $2, or 20 tokens of another market worth $10
Wallets ==
    [ usdc_balance   : {0, 300, 1000},
      my_positions   : { <<>>, <<Holding("YES", "M", 400, 50, 200)>>,
                         <<Holding("YES", "X", 2000, 50, 1000)>> },
      user_positions : { <<Holding("YES", "M", 1600, 50, 800)>> } ]

InitBalance ==
    /\ \E wallet \in Wallets :
          env = [ aggregation |-> FALSE, config |-> BaseConfig, feed |-> BalanceFeed,
                  data |-> {}, wallet |-> wallet,
                  books |-> { <<>>, <<Level(50, 400)>>, <<Level(50, 4000)>> },
                  responses |-> FewResponses, horizon |-> 0 ]
    /\ walk = WalkIdle
    /\ ledger = <<Record(1, FALSE, 1, NoSize)>>
    /\ now = 0
    /\ mon = [pc |-> "off", cutoff_ts |-> 0, sleep |-> 0]
    /\ exe = [ExecutorIdle EXCEPT !.pc = "prepare", !.cur = Single(TradeOf(1))]
    /\ buffer = <<>>
    /\ hist = NoHistory
    /\ calc = NoCalc
    /\ running = Running

\* lines 184-200: _prepare_trade_data, then post_order is called
E_PrepareFromWallet ==
    /\ exe.pc = "prepare"
    /\ walk' = CallFrame(IF exe.cur.trade.side = "BUY" THEN "buy" ELSE "sell",
                         exe.cur.trade, PrepareTradeData(env.wallet, exe.cur.trade),
                         exe.cur.ids)
    /\ exe' = [exe EXCEPT !.pc = "post"]
    /\ UNCHANGED <<ledger, now, mon, buffer, env, hist, calc, running>>

NextBalance == E_PrepareFromWallet \/ PostOrder

SpecBalance == InitBalance /\ [][NextBalance]_vars

\* SpecAsset: the same for a BUY or a SELL of the outcome token YES of market M,
\* or an activity that came without a side, and wallets that hold YES, the other
\* outcome token NO, both or neither

AssetFeeds ==
    { << Activity(0, "BUY", 200, 50, "YES") >>,
      << Activity(0, "SELL", 100, 50, "YES") >>,
      << Activity(0, "", 100, 50, "YES") >> }

AssetHoldings ==
    { <<>>,
      <<Holding("YES", "M", 400, 50, 200)>>,
      <<Holding("NO", "M", 800, 50, 400)>>,
      <<Holding("NO", "M", 800, 50, 400), Holding("YES", "M", 400, 50, 200)>>,
      <<Holding("YES", "M", 400, 50, 200), Holding("NO", "M", 800, 50, 400)>> }

InitAsset ==
    /\ \E feed \in AssetFeeds, mine \in AssetHoldings, theirs \in AssetHoldings :
          env = [ aggregation |-> FALSE, config |-> BaseConfig, feed |-> feed,
                  data |-> {},
                  wallet |-> [ usdc_balance |-> 1000, my_positions |-> mine,
                               user_positions |-> theirs ],
                  books |-> FewBooks, responses |-> FewResponses, horizon |-> 0 ]
    /\ walk = WalkIdle
    /\ ledger = <<Record(1, FALSE, 1, NoSize)>>
    /\ now = 0
    /\ mon = [pc |-> "off", cutoff_ts |-> 0, sleep |-> 0]
    /\ exe = [ExecutorIdle EXCEPT !.pc = "prepare", !.cur = Single(TradeOf(1))]
    /\ buffer = <<>>
    /\ hist = NoHistory
    /\ calc = NoCalc
    /\ running = Running

SpecAsset == InitAsset /\ [][NextBalance]_vars

----------------------------------------------------------------------------
(* SpecTerm: one call of post_order, for books whose best level has size 0  *)
(* and an exchange that may report any order filled                         *)

\* no level, a best level of size 0, a best level of 4 tokens
TermBooks ==
    { <<>>, <<Level(50, 0)>>, <<Level(50, 400)>>, <<Level(50, 0), Level(49, 400)>> }

InitTerm ==
    /\ \E call \in Calls :
          LET data == [ my_position |-> Position(400, 50),
                        user_position |-> Position(400, 50), my_balance |-> 1000 ]
          IN  /\ env = [ aggregation |-> FALSE, config |-> BaseConfig,
                         feed |-> call.feed, data |-> {data}, books |-> TermBooks,
                         responses |-> FewResponses, horizon |-> 0 ]
              /\ walk = CallFrame(call.condition,
                                  LET a == call.feed[1]
                                  IN  [ id |-> 1, side |-> a.side, size |-> a.size,
                                        usdcSize |-> a.usdcSize, price |-> a.price,
                                        asset |-> a.asset,
                                        conditionId |-> a.conditionId ],
                                  data, {1})
    /\ ledger = <<Record(1, FALSE, 1, NoSize), Record(2, TRUE, 0, NoSize)>>
    /\ now = 0
    /\ mon = [pc |-> "off", cutoff_ts |-> 0, sleep |-> 0]
    /\ exe = [ExecutorIdle EXCEPT !.pc = "post"]
    /\ buffer = <<>>
    /\ hist = NoHistory
    /\ calc = NoCalc
    /\ running = Running

SpecTerm == InitTerm /\ [][PostOrder]_vars

----------------------------------------------------------------------------
(* SpecMult: get_trade_multiplier on every table that                       *)
(* parse_tiered_multipliers returns for a string of at most MaxTiers of a   *)
(* few tier definitions, with and without TRADE_MULTIPLIER                  *)

\* "0-100:2.0", "100-200:3.0", "200-300:4.0", "100+:0.5", "300+:0.25"
MultDefs ==
    { Written(2, "min-max", 0, 100 * SCALE, 2 * SCALE),
      Written(2, "min-max", 100 * SCALE, 200 * SCALE, 3 * SCALE),
      Written(2, "min-max", 200 * SCALE, 300 * SCALE, 4 * SCALE),
      Written(2, "min+", 100 * SCALE, None, SCALE \div 2),
      Written(2, "min+", 300 * SCALE, None, SCALE \div 4) }

\* the tables parse_tiered_multipliers returns, and no table
MultTables ==
    { ParseTieredMultipliers(tier_defs).tiers :
        tier_defs \in { s \in UNION { [1 .. n -> MultDefs] : n \in 0 .. MaxTiers } :
                          ParseTieredMultipliers(s).error = "" } }

\* trader notionals below, inside, between and above the tiers
MultNotionals == {0, 50 * SCALE, 100 * SCALE, 150 * SCALE, 250 * SCALE, 300 * SCALE}

InitMult ==
    /\ calc \in [ pc : {"config"},
                   config : { [BaseConfig EXCEPT !.tiered_multipliers = tiers,
                                                 !.trade_multiplier = scalar] :
                              tiers \in MultTables, scalar \in {None, 3 * SCALE} },
                   trader_order_size : MultNotionals,
                   multiplier : {None} ]
    /\ env = [ aggregation |-> FALSE, config |-> BaseConfig, feed |-> <<>>,
               data |-> {}, books |-> {}, responses |-> {}, horizon |-> 0 ]
    /\ ledger = <<>>
    /\ now = 0
    /\ mon = [pc |-> "off", cutoff_ts |-> 0, sleep |-> 0]
    /\ exe = [ExecutorIdle EXCEPT !.pc = "off"]
    /\ buffer = <<>>
    /\ walk = WalkIdle
    /\ hist = NoHistory
    /\ running = Running

\* get_trade_multiplier(config, trader_order_size) returns
G_Multiplier ==
    /\ calc.pc = "config"
    /\ calc' = [calc EXCEPT !.pc = "multiplied",
                            !.multiplier = GetTradeMultiplier(calc.config,
                                                              calc.trader_order_size)]
    /\ UNCHANGED <<ledger, now, mon, exe, buffer, walk, env, hist, running>>

NextMult == G_Multiplier

SpecMult == InitMult /\ [][NextMult]_vars

----------------------------------------------------------------------------
(* SpecSell: one call of post_order for a SELL of 25 tokens, for every      *)
(* position of the trader and of the operator and every tracking state of   *)
(* the operator's earlier buys                                              *)

\* the sell to copy, two earlier buys of the same outcome token and one of the
\* other outcome token
SellSizingFeed ==
    << Activity(0, "SELL", 1250, 50, "YES"),
       Activity(0 - 2, "BUY", 750, 50, "YES"),
       Activity(0 - 1, "BUY", 1250, 50, "YES"),
       Activity(0 - 1, "BUY", 1000, 50, "NO") >>

\* the sell's record, in flight; the earlier buys untracked, sold out, or tracked
\* with 15 and 25 bought tokens; the buy of the other token tracked with 7
SellLedgers ==
    { << Record(1, FALSE, 1, NoSize), Record(2, TRUE, 0, a), Record(3, TRUE, 0, b),
         Record(4, TRUE, 0, 7 * SCALE) >> :
      a \in {NoSize, 0, 15 * SCALE}, b \in {NoSize, 25 * SCALE} }

\* the operator holds nothing, 5 or 30 tokens; the trader nothing, an emptied
\* position, 25 or 100 tokens after the sale
SellData ==
    [ my_position   : {NoPosition, Position(5 * SCALE, 50), Position(30 * SCALE, 50)},
      user_position : {NoPosition, Position(0, 50), Position(25 * SCALE, 50),
                       Position(100 * SCALE, 50)},
      my_balance    : {1000} ]

InitSell ==
    /\ \E config \in OrderConfigs, data \in SellData :
          /\ env = [ aggregation |-> FALSE, config |-> config, feed |-> SellSizingFeed,
                     data |-> {data}, books |-> FewBooks, responses |-> FewResponses,
                     horizon |-> 0 ]
          /\ walk = CallFrame("sell",
                              LET a == SellSizingFeed[1]
                              IN  [ id |-> 1, side |-> a.side, size |-> a.size,
                                    usdcSize |-> a.usdcSize, price |-> a.price,
                                    asset |-> a.asset, conditionId |-> a.conditionId ],
                              data, {1})
    /\ ledger \in SellLedgers
    /\ now = 0
    /\ mon = [pc |-> "off", cutoff_ts |-> 0, sleep |-> 0]
    /\ exe = [ExecutorIdle EXCEPT !.pc = "post"]
    /\ buffer = <<>>
    /\ hist = NoHistory
    /\ calc = NoCalc
    /\ running = Running

SpecSell == InitSell /\ [][PostOrder]_vars

----------------------------------------------------------------------------
(* SpecSize: calculate_order_size on every configuration and argument of a  *)
(* bounded set, after validate_copy_strategy_config has accepted the        *)
(* configuration                                                           *)

\* a tier table as parse_tiered_multipliers returns it: 2.0x below $100, 0.5x from $100
TwoTiers ==
    << [min |-> 0, max |-> 100 * SCALE, multiplier |-> 2 * SCALE],
       [min |-> 100 * SCALE, max |-> None, multiplier |-> SCALE \div 2] >>

SizeConfigs ==
    { [ strategy |-> k, copy_size |-> c,
        adaptive_min_percent |-> a[1], adaptive_max_percent |-> a[2],
        adaptive_threshold |-> th, tiered_multipliers |-> tiers,
        trade_multiplier |-> m,
        max_order_size_usd |-> hi, min_order_size_usd |-> lo,
        max_position_size_usd |-> pos, max_daily_volume_usd |-> None ] :
      k \in {"PERCENTAGE", "FIXED", "ADAPTIVE"},
      c \in {0, 50 * SCALE, 150 * SCALE},
      a \in {<<None, None>>, <<5 * SCALE, 20 * SCALE>>, <<20 * SCALE, 5 * SCALE>>},
      th \in {None, 100 * SCALE},
      tiers \in {<<>>, TwoTiers},
      m \in {None, 3 * SCALE},
      hi \in {0, 50 * SCALE, 100 * SCALE},
      lo \in {1 * SCALE, 80 * SCALE},
      pos \in {None, 120 * SCALE} }

\* trader notional, available balance, current position value, in dollars
SizeNotionals == {0, 50, 150 * SCALE, 1000 * SCALE}

SizeBalances == {0, 50 * SCALE, 1000 * SCALE}

SizePositions == {0, 100 * SCALE}

NoResult ==
    [ trader_order_size |-> 0, base_amount |-> 0, final_amount |-> 0,
      capped_by_max |-> FALSE, reduced_by_balance |-> FALSE, below_minimum |-> FALSE ]

InitSize ==
    /\ calc \in [ pc : {"config"}, config : SizeConfigs,
                   trader_order_size : SizeNotionals,
                   available_balance : SizeBalances,
                   current_position_size : SizePositions,
                   errors : {{}}, result : {NoResult} ]
    /\ env = [ aggregation |-> FALSE, config |-> BaseConfig, feed |-> <<>>,
               data |-> {}, books |-> {}, responses |-> {}, horizon |-> 0 ]
    /\ ledger = <<>>
    /\ now = 0
    /\ mon = [pc |-> "off", cutoff_ts |-> 0, sleep |-> 0]
    /\ exe = [ExecutorIdle EXCEPT !.pc = "off"]
    /\ buffer = <<>>
    /\ walk = WalkIdle
    /\ hist = NoHistory
    /\ running = Running

\* validate_copy_strategy_config(config) returns its list of errors
S_Validate ==
    /\ calc.pc = "config"
    /\ calc' = [calc EXCEPT !.pc = "validated",
                            !.errors = ValidateCopyStrategyConfig(calc.config)]
    /\ UNCHANGED <<ledger, now, mon, exe, buffer, walk, env, hist, running>>

\* calculate_order_size(config, trader_order_size, available_balance,
\* current_position_size) on a configuration that was accepted
S_Calculate ==
    /\ calc.pc = "validated"
    /\ calc.errors = {}
    /\ calc' = [calc EXCEPT !.pc = "sized",
                            !.result = CalculateOrderSize(calc.config,
                                                          calc.trader_order_size,
                                                          calc.available_balance,
                                                          calc.current_position_size)]
    /\ UNCHANGED <<ledger, now, mon, exe, buffer, walk, env, hist, running>>

NextSize ==
    \/ S_Validate
    \/ S_Calculate

SpecSize == InitSize /\ [][NextSize]_vars

----------------------------------------------------------------------------
(* SpecAdaptive: _calculate_adaptive_percent on ADAPTIVE configurations     *)
(* that validate_copy_strategy_config accepts                               *)

\* copy_size 10% or 50%, adaptive_min_percent 0% or 5%, adaptive_max_percent
\* 50% or 100%, threshold unset ($500) or $100
AdaptiveConfigs ==
    { [BaseConfig EXCEPT !.strategy = "ADAPTIVE", !.copy_size = c,
                         !.adaptive_min_percent = lo, !.adaptive_max_percent = hi,
                         !.adaptive_threshold = th] :
      c \in {10 * SCALE, 50 * SCALE}, lo \in {0, 5 * SCALE},
      hi \in {50 * SCALE, 100 * SCALE}, th \in {None, 100 * SCALE} }

\* trader notionals from $0 to $1000
AdaptiveNotionals ==
    {0, 50 * SCALE, 100 * SCALE, 150 * SCALE, 200 * SCALE, 500 * SCALE, 1000 * SCALE}

InitAdaptive ==
    /\ calc \in [ pc : {"config"}, config : AdaptiveConfigs,
                   trader_order_size : AdaptiveNotionals,
                   errors : {{}}, percent : {None} ]
    /\ env = [ aggregation |-> FALSE, config |-> BaseConfig, feed |-> <<>>,
               data |-> {}, books |-> {}, responses |-> {}, horizon |-> 0 ]
    /\ ledger = <<>>
    /\ now = 0
    /\ mon = [pc |-> "off", cutoff_ts |-> 0, sleep |-> 0]
    /\ exe = [ExecutorIdle EXCEPT !.pc = "off"]
    /\ buffer = <<>>
    /\ walk = WalkIdle
    /\ hist = NoHistory
    /\ running = Running

\* calculate_order_size, lines 96-97: _calculate_adaptive_percent(config,
\* trader_order_size) on a configuration that was accepted
A_Percent ==
    /\ calc.pc = "validated"
    /\ calc.errors = {}
    /\ calc' = [calc EXCEPT !.pc = "percent",
                            !.percent = CalculateAdaptivePercent(calc.config,
                                                                 calc.trader_order_size)]
    /\ UNCHANGED <<ledger, now, mon, exe, buffer, walk, env, hist, running>>

NextAdaptive ==
    \/ S_Validate
    \/ A_Percent

SpecAdaptive == InitAdaptive /\ [][NextAdaptive]_vars

----------------------------------------------------------------------------
(* SpecStartup: config/env.py builds ENV.copy_strategy_config from the      *)
(* environment, and the engine sizes a buy with it                         *)

\* os.getenv(key, default) for a numeric variable; None stands for an unset one
Getenv(value, default) == IF value = None THEN default ELSE value

\* _parse_copy_strategy, lines 146-166: COPY_PERCENTAGE without COPY_STRATEGY
LegacyStrategy(environ) ==
    LET trade_multiplier == Getenv(environ.TRADE_MULTIPLIER, SCALE)
        tiers            == ParseTieredMultipliers(environ.TIERED_MULTIPLIERS)
    IN  [ error  |-> tiers.error,
          config |->
            [ strategy |-> "PERCENTAGE",
              copy_size |-> Mul(environ.COPY_PERCENTAGE, trade_multiplier),
              adaptive_min_percent |-> None, adaptive_max_percent |-> None,
              adaptive_threshold |-> None,
              tiered_multipliers |-> tiers.tiers,
              trade_multiplier |->
                  IF environ.TIERED_MULTIPLIERS = <<>> /\ trade_multiplier # SCALE
                  THEN trade_multiplier ELSE None,
              max_order_size_usd |-> Getenv(environ.MAX_ORDER_SIZE_USD, 100 * SCALE),
              min_order_size_usd |-> Getenv(environ.MIN_ORDER_SIZE_USD, 1 * SCALE),
              max_position_size_usd |-> environ.MAX_POSITION_SIZE_USD,
              max_daily_volume_usd |-> None ] ]

\* _parse_copy_strategy, lines 168-197; COPY_STRATEGY is read in capitals
CurrentStrategy(environ) ==
    LET strategy  == IF environ.COPY_STRATEGY \in {"PERCENTAGE", "FIXED", "ADAPTIVE"}
                     THEN environ.COPY_STRATEGY ELSE "PERCENTAGE"
        copy_size == Getenv(environ.COPY_SIZE, 10 * SCALE)
        adaptive  == strategy = "ADAPTIVE"
        tiers     == ParseTieredMultipliers(environ.TIERED_MULTIPLIERS)
    IN  [ error  |-> tiers.error,
          config |->
            [ strategy |-> strategy,
              copy_size |-> copy_size,
              adaptive_min_percent |->
                  IF adaptive THEN Getenv(environ.ADAPTIVE_MIN_PERCENT, copy_size)
                  ELSE None,
              adaptive_max_percent |->
                  IF adaptive THEN Getenv(environ.ADAPTIVE_MAX_PERCENT, copy_size)
                  ELSE None,
              adaptive_threshold |-> IF adaptive THEN 500 * SCALE ELSE None,
              tiered_multipliers |-> tiers.tiers,
              trade_multiplier |->
                  IF /\ environ.TIERED_MULTIPLIERS = <<>>
                     /\ environ.TRADE_MULTIPLIER # None
                     /\ environ.TRADE_MULTIPLIER # SCALE
                  THEN environ.TRADE_MULTIPLIER ELSE None,
              max_order_size_usd |-> Getenv(environ.MAX_ORDER_SIZE_USD, 100 * SCALE),
              min_order_size_usd |-> Getenv(environ.MIN_ORDER_SIZE_USD, 1 * SCALE),
              max_position_size_usd |-> environ.MAX_POSITION_SIZE_USD,
              max_daily_volume_usd |-> None ] ]

\* _parse_copy_strategy: the configuration, or the error that a
\* TIERED_MULTIPLIERS string raises
ParseCopyStrategy(environ) ==
    IF environ.COPY_PERCENTAGE # None /\ environ.COPY_STRATEGY = ""
    THEN LegacyStrategy(environ)
    ELSE CurrentStrategy(environ)

\* the environments: each variable unset or set to a value
Environments ==
    [ COPY_PERCENTAGE       : {None, 10 * SCALE},
      COPY_STRATEGY         : {"", "PERCENTAGE", "FIXED", "ADAPTIVE", "OTHER"},
      COPY_SIZE             : {None, 0, 150 * SCALE},
      TRADE_MULTIPLIER      : {None, 2 * SCALE},
      MAX_ORDER_SIZE_USD    : {None, 50 * SCALE},
      MIN_ORDER_SIZE_USD    : {None, 80 * SCALE},
      MAX_POSITION_SIZE_USD : {None},
      ADAPTIVE_MIN_PERCENT  : {None, 20 * SCALE},
      ADAPTIVE_MAX_PERCENT  : {None, 5 * SCALE},
      TIERED_MULTIPLIERS    :
          { <<>>,
            << Written(2, "min+", 100 * SCALE, None, SCALE \div 2),
               Written(2, "min-max", 0, 100 * SCALE, 2 * SCALE) >>,
            << Written(2, "min-max", 0, 200 * SCALE, 2 * SCALE),
               Written(2, "min+", 100 * SCALE, None, SCALE \div 2) >> } ]

InitStartup ==
    /\ calc \in [ pc : {"env"}, environ : Environments, error : {""},
                   config : {BaseConfig}, result : {NoResult} ]
    /\ env = [ aggregation |-> FALSE, config |-> BaseConfig, feed |-> <<>>,
               data |-> {}, books |-> {}, responses |-> {}, horizon |-> 0 ]
    /\ ledger = <<>>
    /\ now = 0
    /\ mon = [pc |-> "off", cutoff_ts |-> 0, sleep |-> 0]
    /\ exe = [ExecutorIdle EXCEPT !.pc = "off"]
    /\ buffer = <<>>
    /\ walk = WalkIdle
    /\ hist = NoHistory
    /\ running = Running

\* env.py, line 246: ENV.copy_strategy_config = _parse_copy_strategy(); the
\* import fails when it raises
L_LoadEnv ==
    /\ calc.pc = "env"
    /\ LET r == ParseCopyStrategy(calc.environ)
       IN  calc' = IF r.error # ""
                   THEN [calc EXCEPT !.pc = "failed", !.error = r.error]
                   ELSE [calc EXCEPT !.pc = "loaded", !.config = r.config]
    /\ UNCHANGED <<ledger, now, mon, exe, buffer, walk, env, hist, running>>

\* post_order (buy), for a trade of $150 with a balance of $1000: the engine
\* calls calculate_order_size with ENV.copy_strategy_config
L_Calculate ==
    /\ calc.pc = "loaded"
    /\ calc' = [calc EXCEPT !.pc = "sized",
                            !.result = CalculateOrderSize(calc.config, 150 * SCALE,
                                                          1000 * SCALE, 0)]
    /\ UNCHANGED <<ledger, now, mon, exe, buffer, walk, env, hist, running>>

NextStartup ==
    \/ L_LoadEnv
    \/ L_Calculate

SpecStartup == InitStartup /\ [][NextStartup]_vars

----------------------------------------------------------------------------
(* SpecIngest: the trade monitor with two tracked traders, whose fetches    *)
(* and database calls may raise                                            *)

\* the activity a, made by trader `address`
By(address, a) == [a EXCEPT !.user = address]

\* trader 1 makes one trade at boot; trader 2 one at boot and one later
TwoTraderFeed ==
    << By(1, Activity(0, "BUY", 200, 50, "YES")),
       By(2, Activity(0, "BUY", 300, 50, "NO")),
       By(2, Activity(1, "SELL", 100, 50, "NO")) >>

InitIngest ==
    /\ env = [ aggregation |-> FALSE, config |-> BaseConfig, feed |-> TwoTraderFeed,
               data |-> FewData, books |-> FewBooks, responses |-> FewResponses,
               horizon |-> MaxTimeIngest ]
    /\ ledger = <<>>
    /\ now = 0
    /\ mon = [ pc |-> "start", cutoff_ts |-> 0, sleep |-> 0, k |-> 0,
               activities |-> <<>>, fetched |-> {}, failed |-> {} ]
    /\ exe = [ExecutorIdle EXCEPT !.pc = "off"]
    /\ buffer = <<>>
    /\ walk = WalkIdle
    /\ hist = NoHistory
    /\ calc = NoCalc
    /\ running = Running

NextIngest ==
    \/ Tick
    \/ M_FirstRun
    \/ MT_BeginCycle
    \/ MT_Fetch
    \/ MT_Process
    \/ MT_UpdatePositions
    \/ MT_Raises
    \/ MT_EndCycle

SpecIngest == InitIngest /\ [][NextIngest]_vars

----------------------------------------------------------------------------
(* SpecStop: main() with aggregation disabled, an empty ledger, a trader    *)
(* who makes two trades at boot, and a shutdown request at any moment       *)

StopFeed ==
    << Activity(0, "BUY", 200, 50, "YES"),
       Activity(0, "SELL", 100, 50, "NO") >>

InitStop ==
    /\ env = [ aggregation |-> FALSE, config |-> BaseConfig, feed |-> StopFeed,
               data |-> FewData, books |-> FewBooks, responses |-> FewResponses,
               horizon |-> MaxTimeStop ]
    /\ ledger = <<>>
    /\ now = 0
    /\ mon = [pc |-> "start", cutoff_ts |-> 0, sleep |-> 0]
    /\ exe = ExecutorIdle
    /\ buffer = <<>>
    /\ walk = WalkIdle
    /\ hist = NoHistory
    /\ calc = NoCalc
    /\ running = Running

\* _graceful_shutdown: stop_trade_monitor() and stop_trade_executor()
Stop ==
    /\ running.monitor \/ running.executor
    /\ running' = [monitor |-> FALSE, executor |-> FALSE]
    /\ UNCHANGED <<ledger, now, mon, exe, buffer, walk, env, hist, calc>>

\* trade_monitor, lines 224-230: the loop ends on its test or its break
M_Stop ==
    /\ mon.pc = "loop"
    /\ ~running.monitor
    /\ mon' = [mon EXCEPT !.pc = "stopped"]
    /\ UNCHANGED <<ledger, now, exe, buffer, walk, env, hist, calc, running>>

\* trade_executor, lines 272 and 320-324: the loop ends on its test or its break
E_Stop ==
    /\ exe.pc = "loop"
    /\ ~running.executor
    /\ exe' = [exe EXCEPT !.pc = "stopped"]
    /\ UNCHANGED <<ledger, now, mon, buffer, walk, env, hist, calc, running>>

NextStop ==
    \/ Next
    \/ Stop
    \/ M_Stop
    \/ E_Stop

SpecStop == InitStop /\ [][NextStop]_vars

\* the same with one trade, and order books that may hold a level of size 0
StopWalkFeed == << Activity(0, "BUY", 200, 50, "YES") >>

StopBooks == { <<>>, <<Level(50, 400)>>, <<Level(50, 0)>> }

InitStopWalk ==
    /\ env = [ aggregation |-> FALSE, config |-> BaseConfig, feed |-> StopWalkFeed,
               data |-> FewData, books |-> StopBooks, responses |-> FewResponses,
               horizon |-> MaxTimeStop ]
    /\ ledger = <<>>
    /\ now = 0
    /\ mon = [pc |-> "start", cutoff_ts |-> 0, sleep |-> 0]
    /\ exe = ExecutorIdle
    /\ buffer = <<>>
    /\ walk = WalkIdle
    /\ hist = NoHistory
    /\ calc = NoCalc
    /\ running = Running

SpecStopWalk == InitStopWalk /\ [][NextStop]_vars

----------------------------------------------------------------------------
(* SpecTiers: parse_tiered_multipliers on every string of at most MaxTiers  *)
(* tier definitions                                                        *)

\* the tier definitions a string is made of: "a-b:2.0" and "a+:0.5" for a few
\* dollar amounts a and b, and the definitions "0-100", "100:2.0", "-100+:2.0"
\* and "0-100:-2.0"
TierDefs ==
    { Written(2, "min-max", a, b, 2 * SCALE) :
        a \in {0, 100 * SCALE, 200 * SCALE},
        b \in {100 * SCALE, 200 * SCALE, 300 * SCALE} }
    \cup { Written(2, "min+", a, None, SCALE \div 2) :
             a \in {0, 100 * SCALE, 200 * SCALE} }
    \cup { Written(1, "min-max", 0, 100 * SCALE, 0),
           Written(2, "min", 100 * SCALE, None, 2 * SCALE),
           Written(2, "min+", 0 - 100 * SCALE, None, 2 * SCALE),
           Written(2, "min-max", 0, 100 * SCALE, 0 - 2 * SCALE) }

\* the strings of n tier definitions
TierStrings(n) == [1 .. n -> TierDefs]

InitTiers ==
    /\ \E n \in 0 .. MaxTiers :
          calc \in [ pc : {"string"}, tier_defs : TierStrings(n),
                     error : {""}, tiers : {<<>>} ]
    /\ env = [ aggregation |-> FALSE, config |-> BaseConfig, feed |-> <<>>,
               data |-> {}, books |-> {}, responses |-> {}, horizon |-> 0 ]
    /\ ledger = <<>>
    /\ now = 0
    /\ mon = [pc |-> "off", cutoff_ts |-> 0, sleep |-> 0]
    /\ exe = [ExecutorIdle EXCEPT !.pc = "off"]
    /\ buffer = <<>>
    /\ walk = WalkIdle
    /\ hist = NoHistory
    /\ running = Running

\* parse_tiered_multipliers(tiers_str) raises or returns
T_Parse ==
    /\ calc.pc = "string"
    /\ LET r == ParseTieredMultipliers(calc.tier_defs)
       IN  calc' = [calc EXCEPT !.pc = "parsed", !.error = r.error, !.tiers = r.tiers]
    /\ UNCHANGED <<ledger, now, mon, exe, buffer, walk, env, hist, running>>

NextTiers == T_Parse

SpecTiers == InitTiers /\ [][NextTiers]_vars

----------------------------------------------------------------------------
(* Properties                                                              *)

\* C1 (cold start): every record that was unprocessed in the ledger at boot gets
\* no order, and once the monitor's first-run bulk mark has run it is in the skip
\* state bot = True, botExcutedTime = 999, whatever the executor has done.
C1_ColdStart ==
    \A i \in hist.pre :
        /\ i \notin hist.ordered
        /\ mon.pc # "start" =>
              ledger[i].bot /\ ledger[i].botExcutedTime = SKIPPED

\* C2 (idempotent ingest): no two records of the ledger have the same transaction
\* hash; and a step of _process_new_trade for hash h leaves exactly one record
\* with hash h and changes no record that was there, its bot, botExcutedTime and
\* myBoughtSize included.
C2_IdempotentIngest ==
    /\ [](\A i, j \in Ids : ledger[i].hash = ledger[j].hash => i = j)
    /\ [][\A h \in Hashes :
            M_ProcessNewTrade(h) =>
                /\ Cardinality({i \in DOMAIN ledger' : ledger'[i].hash = h}) = 1
                /\ \A i \in Ids : ledger'[i] = ledger[i]]_vars

\* C2 witness: the feed has returned again the hash of the only record of the
\* ledger, a buy that the executor has executed and recorded with its bought tokens.
C2_Witness ==
    /\ hist.again
    /\ Len(ledger) = 1
    /\ ledger[1].bot
    /\ ledger[1].myBoughtSize > 0

\* C3 as stated (no replay of history): a record of a trade made before boot
\* (timestamp < 0) never gets an order and, once the monitor's first-run mark has
\* run, is never unprocessed.
C3_NoOrderBeforeBoot ==
    \A i \in Ids :
        Attr(ledger[i].hash).timestamp < 0 =>
            /\ i \notin hist.ordered
            /\ mon.pc # "start" => ~IsUnprocessed(ledger[i])

\* C3 amended (no replay of stale trades): a trade that is older than the cutoff
\* (now - TOO_OLD) of the poll cycle that ingests it is inserted with bot = True,
\* botExcutedTime = 999, stays so, is never passed to post_order and gets no
\* order.
C3_NoOrderForStale ==
    \A i \in hist.stale :
        /\ ledger[i].bot
        /\ ledger[i].botExcutedTime = SKIPPED
        /\ hist.posted[i] = 0
        /\ i \notin hist.ordered

\* C3 witness: a stale trade has been ingested, and an order was submitted for a
\* trade made before boot but after the cutoff.
C3_Witness ==
    /\ hist.stale # {}
    /\ \E i \in hist.ordered : Attr(ledger[i].hash).timestamp < 0

\* C4 (at-most-once execution): no record is passed to post_order more than once,
\* alone or in a group; a record that is no longer pending (bot or a
\* botExcutedTime other than 0) never becomes pending again; and every trade
\* that the executor's query returns is pending and was never passed to
\* post_order.
C4_AtMostOnce ==
    /\ [](\A i \in Ids : hist.posted[i] <= 1)
    /\ [][\A i \in Ids :
            (ledger[i].bot \/ ledger[i].botExcutedTime # 0) =>
                (ledger'[i].bot \/ ledger'[i].botExcutedTime # 0)]_vars
    /\ [][(exe.pc = "loop" /\ exe'.pc # "loop") =>
            \A n \in DOMAIN exe'.trades :
                LET i == exe'.trades[n].id
                IN  /\ ~ledger[i].bot
                    /\ ledger[i].botExcutedTime = 0
                    /\ hist.posted[i] = 0]_vars

\* C4 witness: a record executed alone in an earlier pass is processed, and a
\* later pass has passed a group to post_order.
C4_Witness ==
    /\ walk.pc # "idle"
    /\ exe.cur.agg
    /\ \E i \in Ids :
          /\ i \notin walk.members
          /\ hist.posted[i] = 1
          /\ ledger[i].bot

\* C5 (no trade stays in flight): in a run that started with an empty ledger,
\* whenever the executor is between two passes, or its thread has ended, no
\* record is in flight (bot = False, botExcutedTime = 1).
C5_NoneLeftInFlight ==
    exe.pc \in {"loop", "dead"} =>
        \A i \in Ids : ~(~ledger[i].bot /\ ledger[i].botExcutedTime = 1)

\* C9 (aggregation result): when post_order is called for the group of the three
\* $0.50 buys (prices 0.40, 0.50, 0.60), the synthetic trade has usdcSize 1.50 and
\* the notional-weighted average price 0.50, and none of the three is passed to
\* post_order in any other call.
C9_AggregationResult ==
    LET small == {i \in Ids : ledger[i].hash \in {1, 2, 3}}
    IN  /\ \A i \in small : hist.posted[i] <= 1
        /\ (walk.pc # "idle" /\ Cardinality(small) = 3 /\ walk.members = small) =>
              /\ walk.trade.usdcSize = 150
              /\ walk.trade.price = 50

\* C10 (aggregation discard): the $0.50 buy (hash 2) that no other trade joins is
\* never passed to post_order and gets no order.
C10_LoneBuyDiscarded ==
    \A i \in Ids :
        ledger[i].hash = 2 => hist.posted[i] = 0 /\ i \notin hist.ordered

\* C6 as stated (oversell guard): in a sell, the size the walk starts with is at
\* most the operator's position, and the amounts of all the sell orders submitted
\* sum to at most the position.
C6_SubmittedWithinPosition ==
    walk.condition = "sell" =>
        /\ walk.remaining <= walk.my_position.size
        /\ walk.submitted <= walk.my_position.size

\* C6 amended (oversell guard): in a sell, the size the walk starts with is at
\* most the operator's position; every single order is at most the position; and
\* the amounts of the filled orders plus what remains to sell sum to at most the
\* position.  (A rejected order is submitted again, so the amounts submitted can
\* sum to more.)
C6_FilledWithinPosition ==
    walk.condition = "sell" =>
        /\ walk.remaining <= walk.my_position.size
        /\ walk.amount <= walk.my_position.size
        /\ walk.total_tokens + walk.remaining <= walk.my_position.size

\* C6 witness: a sell whose computed size (tracked purchases of 8 tokens, sold
\* entirely) exceeded the position of 4 tokens has ended with the whole position
\* sold, after a rejected order.
C6_Witness ==
    /\ walk.condition = "sell"
    /\ walk.pc = "done"
    /\ walk.user_position.some
    /\ ProportionalSell(walk, walk.total_bought_tokens) > walk.my_position.size
    /\ walk.total_tokens = walk.my_position.size
    /\ walk.submitted > walk.my_position.size

\* C7 (sizing bounds): for a configuration that validate_copy_strategy_config
\* accepts, calculate_order_size returns 0 <= final_amount <= max_order_size_usd,
\* and final_amount is 0 or at least min_order_size_usd.
C7_SizingBounds ==
    calc.pc = "sized" =>
        LET final_amount == calc.result.final_amount
        IN  /\ 0 <= final_amount
            /\ final_amount <= calc.config.max_order_size_usd
            /\ final_amount = 0 \/ final_amount >= calc.config.min_order_size_usd

\* C7 witness: a tier multiplier has taken the amount above max_order_size_usd and
\* the result is the cap.
C7_Witness ==
    /\ calc.pc = "sized"
    /\ calc.config.tiered_multipliers # <<>>
    /\ calc.result.capped_by_max
    /\ calc.result.final_amount = calc.config.max_order_size_usd

\* C8 (insufficient-funds classification): in the three walks, a rejected order
\* whose error message contains "allowance" or "not enough balance" (compared in
\* lower case, as is_insufficient_balance_or_allowance_error does) ends the walk
\* with the retry counter unchanged; any other rejection adds exactly one to the
\* retry counter and leaves the walk in its loop; after a funds rejection no
\* further order is submitted; and the trade is then recorded with bot = True and
\* botExcutedTime = RETRY_LIMIT.
C8_FundsClassification ==
    /\ [][(walk'.orders = walk.orders + 1 /\ walk'.last.kind = "rejected") =>
            LET lower == Lower(walk'.last.message)
            IN  IF Contains(lower, AllowanceText) \/ Contains(lower, NotEnoughBalanceText)
                THEN /\ walk'.abort_due_to_funds
                     /\ walk'.pc = "after"
                     /\ walk'.retry = walk.retry
                ELSE /\ ~walk'.abort_due_to_funds
                     /\ walk'.pc = "loop"
                     /\ walk'.retry = walk.retry + 1]_vars
    /\ [][walk.abort_due_to_funds => walk'.orders = walk.orders]_vars
    /\ []((walk.pc = "done" /\ walk.abort_due_to_funds) =>
            /\ ledger[walk.trade.id].bot
            /\ ledger[walk.trade.id].botExcutedTime = RETRY_LIMIT)

\* C8 witness: a walk has ended on a funds rejection written in capitals, after
\* one rejection of another kind.
C8_Witness ==
    /\ walk.pc = "done"
    /\ walk.abort_due_to_funds
    /\ walk.retry = 1
    /\ walk.orders = 2
    /\ Lower(walk.last.message) # walk.last.message

\* C11 (sell sizing): when post_order enters a sell while the operator holds a
\* position and the trader still holds one after the sale, the base sell size
\* (before multiplier and cap) is fraction x B, with fraction = tradeSize /
\* (traderCurrentSize + tradeSize) and B the sum of the operator's tracked bought
\* tokens of the trade's market and asset when that sum is positive, else the
\* operator's live position size; for traderCurrentSize 100, tradeSize 25 and 40
\* tracked tokens it is 8.
C11_SellSizing ==
    [][(walk.pc = "call" /\ walk'.pc \in {"loop", "done"} /\ walk.condition = "sell"
        /\ walk.my_position.some /\ walk.user_position.some) =>
          LET tradeSize == walk.trade.size
              traderCurrentSize == walk.user_position.size
              fraction == Div(tradeSize, traderCurrentSize + tradeSize)
              tracked  == SumBought(PreviousBuys(ledger, 1, walk.trade))
              B        == IF tracked > 0 THEN tracked ELSE walk.my_position.size
          IN  /\ walk'.base_sell_size = Mul(B, fraction)
              /\ (traderCurrentSize = 100 * SCALE /\ tradeSize = 25 * SCALE
                  /\ tracked = 40 * SCALE) => walk'.base_sell_size = 8 * SCALE]_vars

\* C11 witness: the trader holds 100 tokens after selling 25, the operator has 40
\* tracked tokens in two purchases, and the sell walk has started with base size 8.
C11_Witness ==
    /\ walk.condition = "sell"
    /\ walk.pc = "loop"
    /\ walk.user_position.size = 100 * SCALE
    /\ walk.trade.size = 25 * SCALE
    /\ Len(walk.previous_buys) = 2
    /\ walk.total_bought_tokens = 40 * SCALE
    /\ walk.base_sell_size = 8 * SCALE

\* C12 (tier table well-formedness): a table that parse_tiered_multipliers
\* returns is sorted by ascending min, each tier's max is at most the next tier's
\* min, and only the last tier may have an unbounded max; and a string in which
\* two tier definitions have overlapping ranges [min, max) (max infinite for
\* "min+") makes it raise.
C12_TierTableWellFormed ==
    calc.pc = "parsed" =>
        /\ calc.error = "" =>
              \A i \in 1 .. (Len(calc.tiers) - 1) :
                  /\ calc.tiers[i].min <= calc.tiers[i + 1].min
                  /\ calc.tiers[i].max # None
                  /\ calc.tiers[i].max <= calc.tiers[i + 1].min
        /\ (\E i, j \in DOMAIN calc.tier_defs :
              LET a == calc.tier_defs[i]
                  b == calc.tier_defs[j]
              IN  /\ i < j
                  /\ a.max = None \/ b.min < a.max
                  /\ b.max = None \/ a.min < b.max)
           => calc.error # ""

\* C12 witness: a string of three tiers was parsed into a table of three tiers
\* whose last tier is unbounded.
C12_Witness ==
    /\ calc.pc = "parsed"
    /\ calc.error = ""
    /\ Len(calc.tiers) = 3
    /\ calc.tiers[3].max = None
    /\ calc.tiers[1].max = calc.tiers[2].min

\* C13 as stated (tier order is enforced): a string in which some tier has a
\* lower min than a tier written before it, or in which a "min+" tier is written
\* anywhere but last, makes parse_tiered_multipliers raise.
C13_TierOrderEnforced ==
    (/\ calc.pc = "parsed"
     /\ \/ \E i, j \in DOMAIN calc.tier_defs :
              i < j /\ calc.tier_defs[j].min < calc.tier_defs[i].min
        \/ \E i \in 1 .. (Len(calc.tier_defs) - 1) : calc.tier_defs[i].form = "min+")
    => calc.error # ""

\* C13 amended (tiers are sorted, not rejected): parse_tiered_multipliers raises
\* exactly when some tier definition is malformed (not two parts, a negative
\* multiplier or min, max <= min, a range that is neither "min-max" nor "min+")
\* or two tiers overlap, whatever the order they are written in; otherwise it
\* returns all the tiers in ascending order of min.
C13_DisjointTiersAccepted ==
    calc.pc = "parsed" =>
        LET defs == calc.tier_defs
            WellFormed(d) ==
                /\ d.parts = 2
                /\ d.multiplier >= 0
                /\ \/ d.form = "min+" /\ d.min >= 0
                   \/ d.form = "min-max" /\ d.min >= 0 /\ d.max > d.min
            Overlap(a, b) ==
                /\ a.max = None \/ b.min < a.max
                /\ b.max = None \/ a.min < b.max
            Accepted ==
                /\ \A i \in DOMAIN defs : WellFormed(defs[i])
                /\ \A i, j \in DOMAIN defs : i < j => ~Overlap(defs[i], defs[j])
        IN  /\ calc.error = "" <=> Accepted
            /\ calc.error = "" =>
                  /\ Len(calc.tiers) = Len(defs)
                  /\ \A i \in DOMAIN defs :
                        \E k \in DOMAIN calc.tiers :
                            /\ calc.tiers[k].min = defs[i].min
                            /\ calc.tiers[k].max = defs[i].max
                            /\ calc.tiers[k].multiplier = defs[i].multiplier
                  /\ \A k \in 1 .. (Len(calc.tiers) - 1) :
                        calc.tiers[k].min < calc.tiers[k + 1].min

\* C13 witness: a string of three tiers written in descending order, the "min+"
\* tier first, was accepted.
C13_Witness ==
    /\ calc.pc = "parsed"
    /\ calc.error = ""
    /\ Len(calc.tier_defs) = 3
    /\ calc.tier_defs[1].form = "min+"
    /\ calc.tier_defs[2].min > calc.tier_defs[3].min
    /\ calc.tiers[3].max = None

\* C14 as stated (crash recovery): the record that was in flight (bot = False,
\* botExcutedTime = 1) when the process stopped is picked up after the restart:
\* when the executor has finished a pass, the record has been passed to
\* post_order.
C14_RestartReexecutes ==
    exe.sleep > 0 => hist.posted[1] > 0

\* C14 amended (no recovery of an in-flight trade): the record that was in flight
\* when the process stopped is never returned by the executor's query, never
\* passed to post_order and never gets an order; it stays in flight until the
\* monitor's first-run mark, which records it bot = True, botExcutedTime = 999.
C14_InFlightNotResumed ==
    /\ hist.posted[1] = 0
    /\ 1 \notin hist.ordered
    /\ \A n \in DOMAIN exe.trades : exe.trades[n].id # 1
    /\ 1 \notin exe.cur.ids
    /\ IF mon.pc = "start"
       THEN ~ledger[1].bot /\ ledger[1].botExcutedTime = 1
       ELSE ledger[1].bot /\ ledger[1].botExcutedTime = SKIPPED

\* C14 witness: after the restart the executor has executed a trade ingested
\* since and finished the pass; the record left in flight is in the skip state.
C14_Witness ==
    /\ exe.sleep > 0
    /\ \E i \in Ids : i # 1 /\ hist.posted[i] = 1 /\ ledger[i].bot
    /\ ledger[1].botExcutedTime = SKIPPED

\* C15 (cooperative stop granularity): once stop_trade_executor() has been
\* called, the executor starts no further trade or aggregated group (it enters
\* neither _execute_single_trade nor the body of _do_aggregated_trading's loop)
\* and post_order starts no further book-walk iteration.
C15_StopGranularity ==
    [][~running.executor =>
          /\ exe'.pc = "mark" => exe.pc = "mark"
          /\ ~O_Iterate]_vars

\* C16 (ingest error isolation): the monitor loop never ends on an exception of
\* a fetch, an ingest or a position refresh; when a poll cycle ends, every
\* tracked trader was fetched in it, those that failed in an earlier cycle
\* included, and every trade made before the cycle started by a trader for whom
\* nothing raised in this cycle is in the ledger.
C16_IngestIsolation ==
    /\ [](mon.pc \in {"start", "loop", "fetch", "process"})
    /\ [][MT_EndCycle =>
            /\ mon.fetched = {UserAddresses[k] : k \in DOMAIN UserAddresses}
            /\ \A h \in Hashes :
                  (/\ Attr(h).user \notin mon.failed
                   /\ Attr(h).timestamp <= mon.cutoff_ts + TOO_OLD)
                  => FindOneByHash(h)]_vars

\* C16 witness: the fetch of the first trader raised in one cycle, in which the
\* second trader's trade was ingested; a later cycle, in which nothing raised,
\* has ingested the first trader's trade.
C16_Witness ==
    /\ mon.pc = "loop"
    /\ mon.failed = {}
    /\ Len(ledger) >= 2
    /\ Attr(ledger[1].hash).user = 2
    /\ \E i \in Ids : Attr(ledger[i].hash).user = 1

\* C17 (validation gate): a startup that has not failed has a configuration for
\* which validate_copy_strategy_config reports no error, and calculate_order_size
\* is called only with such a configuration.
C17_ValidationGate ==
    calc.pc \in {"loaded", "sized"} => ValidateCopyStrategyConfig(calc.config) = {}

\* C18 (stale-trade skip): when _process_new_trade inserts a trade, the record
\* has bot = True and botExcutedTime = 999 if the trade's timestamp is earlier
\* than the cutoff of the poll cycle (time.time() minus the maximum age, computed
\* when the cycle starts), and bot = False and botExcutedTime = 0 if it is at or
\* after the cutoff; a record inserted as too old is never among the trades that
\* _read_temp_trades returns, and no order is ever submitted for it.
C18_StaleTradeSkip ==
    /\ [][\A h \in Hashes :
            (M_ProcessNewTrade(h) /\ ~FindOneByHash(h)) =>
                LET id == Len(ledger) + 1
                IN  /\ Len(ledger') = id
                    /\ ledger'[id].hash = h
                    /\ IF Attr(h).timestamp < mon.cutoff_ts
                       THEN /\ ledger'[id].bot
                            /\ ledger'[id].botExcutedTime = SKIPPED
                            /\ id \in hist'.stale
                       ELSE /\ ~ledger'[id].bot
                            /\ ledger'[id].botExcutedTime = 0
                            /\ id \notin hist'.stale]_vars
    /\ [](\A i \in hist.stale :
            /\ \A n \in DOMAIN exe.trades : exe.trades[n].id # i
            /\ i \notin exe.cur.ids
            /\ i \notin walk.members
            /\ i \notin hist.ordered)

\* C18 witness: in one run a trade was inserted as too old, and a trade made
\* before boot but not before the cutoff was inserted unprocessed, read by the
\* executor and given an order.
C18_Witness ==
    /\ hist.stale # {}
    /\ \E i \in Ids :
          /\ i \notin hist.stale
          /\ i \notin hist.pre
          /\ Attr(ledger[i].hash).timestamp < 0
          /\ i \in hist.ordered
          /\ ledger[i].botExcutedTime # SKIPPED

\* C19 (record lifecycle, as stated): a trade record is written at most twice
\* after it is inserted.  The record of the trade handed to post_order already
\* carries the in-flight mark, which is the first write, so the call writes it
\* at most once.
C19_AtMostTwoWrites == 1 + walk.writes <= 2

\* C19 (record lifecycle, amended): no record is ever deleted and no record's
\* trade changes.  A call of post_order writes the record of its trade at most
\* twice, and when it returns it has written it at least once and the record is
\* processed; a write never unsets processed.  The call changes another record
\* only after the loop of a sell, only if that record is a tracked buy of the
\* same market and asset, and only in its myBoughtSize.
C19_RecordLifecycle ==
    /\ [][/\ Len(ledger') >= Len(ledger)
          /\ \A i \in DOMAIN ledger :
                /\ ledger'[i].hash = ledger[i].hash
                /\ ledger[i].bot => ledger'[i].bot]_vars
    /\ [](walk.writes <= 2)
    /\ [](walk.pc = "done" => walk.writes >= 1 /\ ledger[walk.trade.id].bot)
    /\ [][\A i \in DOMAIN ledger :
            (i # walk.trade.id /\ ledger'[i] # ledger[i]) =>
                /\ walk.condition = "sell"
                /\ walk.pc # "call" /\ walk'.pc = "done"
                /\ IsTrackedBuy(ledger[i], walk.trade)
                /\ ledger'[i] = [ledger[i] EXCEPT
                                    !.myBoughtSize = ledger'[i].myBoughtSize]]_vars

\* C19 witness: a sell that filled an order and then found the book empty has
\* returned after two writes of the trade's record, and has rewritten the
\* tracked size of the earlier buy.
C19_Witness ==
    /\ walk.pc = "done"
    /\ walk.condition = "sell"
    /\ walk.writes = 2
    /\ walk.last.kind = "empty"
    /\ walk.total_tokens > 0
    /\ \E i \in DOMAIN ledger :
          /\ i # walk.trade.id
          /\ ledger[i].myBoughtSize \notin {NoSize, 800}

\* C20 (slippage guard): no buy order is submitted at a price above the copied
\* trade's price plus MAX_PRICE_SLIPPAGE; an iteration of the buy walk that
\* reads a best ask above that bound submits no order, leaves the loop and
\* records the trade processed; and after such an iteration the call submits no
\* further order.
C20_SlippageGuard ==
    /\ []((walk.condition = "buy" /\ walk.orders > 0) =>
             walk.price <= walk.trade.price + MAX_PRICE_SLIPPAGE)
    /\ [][\A levels \in env.books, resp \in env.responses :
            ( /\ walk.condition = "buy"
              /\ Looping(walk)
              /\ levels # <<>>
              /\ BestAsk(levels).price > walk.trade.price + MAX_PRICE_SLIPPAGE
              /\ walk' = Iterate(walk, ledger, levels, resp).w
              /\ ledger' = Iterate(walk, ledger, levels, resp).l ) =>
                /\ walk'.pc = "after"
                /\ walk'.last.kind = "slippage"
                /\ walk'.orders = walk.orders
                /\ ledger'[walk.trade.id].bot]_vars
    /\ [][walk.last.kind = "slippage" =>
            /\ walk'.orders = walk.orders
            /\ walk'.pc = "done"
            /\ ledger'[walk.trade.id].bot]_vars

\* C20 witness: a buy walk bought at exactly the trade's price plus the
\* tolerance, then read a best ask above it, and the call has returned with one
\* order submitted and the record processed.
C20_Witness ==
    /\ walk.pc = "done"
    /\ walk.condition = "buy"
    /\ walk.last.kind = "slippage"
    /\ walk.orders = 1
    /\ walk.price = walk.trade.price + MAX_PRICE_SLIPPAGE
    /\ ledger[walk.trade.id].bot

\* C21 (retry accounting, as stated): in a book walk the retry counter always
\* equals the number of submissions in a row that failed since the last fill.
C21_RetryCountsEveryFailure == walk.retry = walk.fails

\* C21 (retry accounting, amended): the retry counter equals the number of
\* submissions in a row that failed since the last fill, not counting a
\* rejection for insufficient funds, which ends the walk at once; a fill sets it
\* to 0; a walk with something remaining leaves its loop by the loop test
\* exactly when RETRY_LIMIT submissions in a row were rejected for other
\* reasons; and a call that returns after retry exhaustion or after a funds
\* rejection has recorded the trade processed with attempt count RETRY_LIMIT.
C21_RetryAccounting ==
    /\ [](walk.retry = walk.fails - (IF walk.abort_due_to_funds THEN 1 ELSE 0))
    /\ [](walk.abort_due_to_funds => walk.pc \in {"after", "done"})
    /\ [][(walk'.orders = walk.orders + 1 /\ walk'.last.kind = "filled") =>
            walk'.retry = 0]_vars
    /\ []((walk.pc = "loop" /\ walk.remaining > 0) =>
             (~Looping(walk) <=> walk.fails = RETRY_LIMIT))
    /\ [](walk.retry <= RETRY_LIMIT)
    /\ []((walk.pc = "done" /\ (walk.retry = RETRY_LIMIT \/ walk.abort_due_to_funds)) =>
             /\ ledger[walk.trade.id].bot
             /\ ledger[walk.trade.id].botExcutedTime = RETRY_LIMIT)

\* C21 witness: a call has returned after retry exhaustion: it had filled an
\* order after an earlier rejection, then RETRY_LIMIT submissions in a row were
\* rejected, and the record carries attempt count RETRY_LIMIT.
C21_Witness ==
    /\ walk.pc = "done"
    /\ walk.orders > RETRY_LIMIT + 1
    /\ walk.total_tokens > 0
    /\ walk.fails = RETRY_LIMIT
    /\ ~walk.abort_due_to_funds
    /\ ledger[walk.trade.id].botExcutedTime = RETRY_LIMIT

\* C22 (buy fills): every order the buy walk submits is priced at the lowest
\* ask of the book it read and has notional min(remaining, size x price) of a
\* level at that price; remaining decreases by exactly the order's notional
\* when the order is filled and is unchanged when it is not; and the notional
\* filled for the trade, together with what remains, is the final_amount that
\* calculate_order_size computed, so it never exceeds it.
C22_BuyFills ==
    /\ [][\A levels \in env.books, resp \in env.responses :
            ( /\ walk.condition = "buy"
              /\ Looping(walk)
              /\ walk' = Iterate(walk, ledger, levels, resp).w
              /\ walk'.orders = walk.orders + 1 ) =>
                /\ levels # <<>>
                /\ \A n \in DOMAIN levels : levels[n].price >= walk'.price
                /\ \E n \in DOMAIN levels :
                      /\ levels[n].price = walk'.price
                      /\ walk'.amount =
                            Min2(walk.remaining, Mul(levels[n].size, levels[n].price))
                /\ IF resp.kind = "filled"
                   THEN /\ walk'.remaining = walk.remaining - walk'.amount
                        /\ walk'.filled = walk.filled + walk'.amount
                   ELSE /\ walk'.remaining = walk.remaining
                        /\ walk'.filled = walk.filled]_vars
    /\ []((walk.condition = "buy" /\ walk.pc \in {"loop", "after", "done"}) =>
             LET final_amount ==
                     CalculateOrderSize(env.config, walk.trade.usdcSize, walk.my_balance,
                         IF walk.my_position.some
                         THEN Mul(walk.my_position.size, walk.my_position.avgPrice)
                         ELSE 0).final_amount
             IN  /\ walk.remaining >= 0
                 /\ walk.filled + walk.remaining = final_amount
                 /\ walk.filled <= final_amount)

\* C22 witness: a buy walk took the lowest ask, which was not the first level
\* of the book and could fill only a part of the order, and has filled two
\* orders with something still remaining.
C22_Witness ==
    /\ walk.condition = "buy"
    /\ walk.pc = "loop"
    /\ walk.orders >= 2
    /\ walk.price = 48
    /\ walk.filled > walk.amount
    /\ walk.last.kind = "filled"
    /\ walk.remaining > 0

\* C23 (balance cap): the balance handed to post_order, and by it to
\* calculate_order_size, is the operator's cash balance (balanceOf), and the
\* notional of the buy orders filled for the trade never exceeds 99% of it.
C23_BalanceCap ==
    walk.pc # "idle" =>
        /\ walk.my_balance = env.wallet.usdc_balance
        /\ walk.filled <= Mul(99, env.wallet.usdc_balance)

\* C24 (position-limit cap): when max_position_size_usd is set,
\* calculate_order_size returns a final_amount with current_position_size +
\* final_amount <= max_position_size_usd whenever final_amount > 0, and returns 0
\* whenever max_position_size_usd - current_position_size is below
\* min_order_size_usd.
C24_PositionLimit ==
    (calc.pc = "sized" /\ calc.config.max_position_size_usd # None) =>
        LET final_amount == calc.result.final_amount
            headroom     == calc.config.max_position_size_usd - calc.current_position_size
        IN  /\ final_amount > 0 => calc.current_position_size + final_amount
                                      <= calc.config.max_position_size_usd
            /\ headroom < calc.config.min_order_size_usd => final_amount = 0

\* C24 witness: an order that would have passed the position limit was reduced
\* to the headroom that was left.
C24_Witness ==
    /\ calc.pc = "sized"
    /\ calc.config.max_position_size_usd # None
    /\ calc.current_position_size > 0
    /\ calc.result.final_amount > 0
    /\ calc.result.final_amount
          = calc.config.max_position_size_usd - calc.current_position_size
    /\ calc.result.base_amount > calc.result.final_amount

RECURSIVE TrackedTotal(_, _)
\* the tokens that ledger l tracks in the records of `buys`
TrackedTotal(l, buys) ==
    IF buys = <<>> THEN 0
    ELSE l[Head(buys).id].myBoughtSize + TrackedTotal(l, Tail(buys))

\* C25 (tracked-purchase update): when a sell returns after its walk, with S
\* tokens sold against T tracked tokens: if S > 0, T > 0 and S >= 0.99 x T, every
\* tracked purchase of the market and asset is 0; if S > 0, T > 0 and
\* S < 0.99 x T, each tracked purchase is its old value times (1 - S/T) and the
\* tracked total is T - S, both up to the rounding of two-decimal arithmetic;
\* if S = 0 no tracked purchase changes.  No tracked count is ever negative.
C25_TrackedPurchases ==
    /\ [][(walk.condition = "sell" /\ walk.pc \in {"loop", "after"} /\ walk'.pc = "done") =>
            LET S     == walk.total_tokens
                T     == walk.total_bought_tokens
                buys  == walk.previous_buys
                total == TrackedTotal(ledger', buys)
            IN  /\ T = TrackedTotal(ledger, buys)
                /\ \A i \in DOMAIN ledger :
                      IsTrackedBuy(ledger[i], walk.trade) <=>
                          \E n \in DOMAIN buys : buys[n].id = i
                /\ IF S > 0 /\ T > 0
                   THEN IF 100 * S >= 99 * T
                        THEN \A n \in DOMAIN buys : ledger'[buys[n].id].myBoughtSize = 0
                        ELSE /\ \A n \in DOMAIN buys :
                                   LET old == ledger[buys[n].id].myBoughtSize
                                       new == ledger'[buys[n].id].myBoughtSize
                                   IN  /\ T * new > old * (T - S) - T
                                       /\ SCALE * T * new <= SCALE * old * (T - S) + old * T
                             /\ total > T - S - Len(buys)
                             /\ SCALE * total <= SCALE * (T - S) + T
                   ELSE \A i \in DOMAIN ledger :
                           ledger'[i].myBoughtSize = ledger[i].myBoughtSize]_vars
    /\ [](\A i \in DOMAIN ledger :
            ledger[i].myBoughtSize = NoSize \/ ledger[i].myBoughtSize >= 0)

\* C25 witness: a sell sold 4 of 40 tracked tokens and has returned; the two
\* tracked purchases of 15 and 25 tokens are now 13.5 and 22.5 tokens.
C25_Witness ==
    /\ walk.pc = "done"
    /\ walk.condition = "sell"
    /\ walk.total_tokens = 400
    /\ walk.total_bought_tokens = 40 * SCALE
    /\ ledger[2].myBoughtSize = 1350
    /\ ledger[3].myBoughtSize = 2250

\* C26 (execution terminates): every iteration of a book walk that stays in
\* the loop makes progress: it reduces remaining, or it leaves remaining as it
\* was and uses up a retry.  So no iteration returns the walk to a (remaining,
\* retry) it has been in, and the walk ends after finitely many iterations
\* whatever the books and the answers of the exchange are.
C26_WalkTerminates ==
    [][(walk.pc = "loop" /\ walk'.pc = "loop" /\ walk'.orders # walk.orders) =>
          \/ walk'.remaining < walk.remaining
          \/ walk'.remaining = walk.remaining /\ walk'.retry > walk.retry]_vars

\* tier n of `tiers` contains the notional: min <= notional < max, or
\* min <= notional when the tier has no max
TierContains(tiers, n, notional) ==
    /\ tiers[n].min <= notional
    /\ tiers[n].max = None \/ notional < tiers[n].max

\* C27 (tier selection, as stated): with a tier table, get_trade_multiplier
\* returns the multiplier of the first tier whose range contains the notional,
\* and never the multiplier of a tier whose range does not contain it.
C27_OnlyContainingTier ==
    (calc.pc = "multiplied" /\ calc.config.tiered_multipliers # <<>>) =>
        LET tiers == calc.config.tiered_multipliers
        IN  \E n \in DOMAIN tiers :
               /\ TierContains(tiers, n, calc.trader_order_size)
               /\ \A k \in 1 .. (n - 1) : ~TierContains(tiers, k, calc.trader_order_size)
               /\ calc.multiplier = tiers[n].multiplier

\* C27 (tier selection, amended): with a tier table, get_trade_multiplier
\* returns the multiplier of the first tier whose range contains the notional
\* when there is one, and the multiplier of the last tier of the table when no
\* tier contains the notional; with no table it returns the scalar multiplier
\* if one is configured and 1.0 otherwise.
C27_TierSelection ==
    calc.pc = "multiplied" =>
        LET tiers      == calc.config.tiered_multipliers
            containing == {n \in DOMAIN tiers :
                             TierContains(tiers, n, calc.trader_order_size)}
        IN  IF tiers = <<>>
            THEN calc.multiplier = IF calc.config.trade_multiplier # None
                                   THEN calc.config.trade_multiplier ELSE SCALE
            ELSE IF containing # {}
            THEN \E n \in containing :
                    /\ \A k \in containing : n <= k
                    /\ calc.multiplier = tiers[n].multiplier
            ELSE calc.multiplier = tiers[Len(tiers)].multiplier

\* C27 witness: the table is "0-100:2.0,200-300:4.0" and the notional $150 is in
\* the gap between its tiers: the multiplier returned is 4.0, the last tier's.
C27_Witness ==
    /\ calc.pc = "multiplied"
    /\ Len(calc.config.tiered_multipliers) = 2
    /\ calc.config.tiered_multipliers[1].max = 100 * SCALE
    /\ calc.config.tiered_multipliers[2].min = 200 * SCALE
    /\ calc.trader_order_size = 150 * SCALE
    /\ calc.multiplier = 4 * SCALE

\* C28 (adaptive percent): for an ADAPTIVE configuration that validation
\* accepts, the percent is lerp(adaptive_max_percent, copy_size, size/threshold)
\* for size < threshold and lerp(copy_size, adaptive_min_percent,
\* clamp(size/threshold - 1, 0, 1)) for size >= threshold, also when
\* adaptive_min_percent is 0; it is adaptive_min_percent for size >= 2 x threshold.
C28_AdaptivePercent ==
    calc.pc = "percent" =>
        LET lo        == calc.config.adaptive_min_percent
            hi        == calc.config.adaptive_max_percent
            copy_size == calc.config.copy_size
            threshold == IF calc.config.adaptive_threshold = None THEN 500 * SCALE
                         ELSE calc.config.adaptive_threshold
            size      == calc.trader_order_size
            t         == Div(size, threshold)
            f         == Max2(0, Min2(SCALE, t - SCALE))
        IN  /\ size < threshold =>
                  calc.percent = hi + Mul(copy_size - hi, Max2(0, Min2(SCALE, t)))
            /\ size >= threshold => calc.percent = copy_size + Mul(lo - copy_size, f)
            /\ size >= 2 * threshold => calc.percent = lo

\* C29 (empty book): an iteration of a buy, sell or merge walk that reads an
\* empty side of the book submits no order, leaves the retry counter as it
\* was, records the trade processed and leaves the loop; after it the call
\* submits no order, does not change the retry counter and returns with the
\* trade processed.
C29_EmptyBook ==
    /\ [][\A resp \in env.responses :
            ( /\ Looping(walk)
              /\ walk' = Iterate(walk, ledger, <<>>, resp).w
              /\ ledger' = Iterate(walk, ledger, <<>>, resp).l ) =>
                /\ walk'.pc = "after"
                /\ walk'.last.kind = "empty"
                /\ walk'.orders = walk.orders
                /\ walk'.retry = walk.retry
                /\ ledger'[walk.trade.id].bot]_vars
    /\ [][walk.last.kind = "empty" =>
            /\ walk'.pc = "done"
            /\ walk'.orders = walk.orders
            /\ walk'.retry = walk.retry
            /\ ledger'[walk.trade.id].bot]_vars

\* C29 witness: a walk had one order rejected, then found the side of the book
\* empty; the call has returned with one order submitted, retry still 1 and
\* the trade processed.
C29_Witness ==
    /\ walk.pc = "done"
    /\ walk.last.kind = "empty"
    /\ walk.orders = 1
    /\ walk.retry = 1
    /\ ledger[walk.trade.id].bot

\* C30 (executor loop survives failures): when _prepare_trade_data or
\* post_order raises while the executor handles a trade or an aggregated group,
\* the executor loop is not ended: the trades handled are recorded processed
\* and the loop goes on.
C30_ExecutorSurvives ==
    [][( \/ exe.pc = "prepare" /\ exe'.pc \notin {"prepare", "post"}
         \/ exe.pc = "post" /\ walk.pc = "raised" /\ walk'.pc = "idle" ) =>
          /\ exe'.pc # "dead"
          /\ \A i \in exe.cur.ids : ledger'[i].bot]_vars

\* C31 (aggregation window): a group leaves the buffer only in a pass of
\* _ready_aggregated_trades in which its age (now - first_trade_time) has reached
\* the window, and then it is dispatched or its trades are recorded processed;
\* that pass leaves no group in the buffer whose age has reached the window; a
\* group that enters the buffer starts with one trade and age 0.
C31_AggregationWindow ==
    [][ /\ \A k \in DOMAIN buffer :
              (\A m \in DOMAIN buffer' :
                    \/ buffer'[m].key # buffer[k].key
                    \/ buffer'[m].first_trade_time # buffer[k].first_trade_time)
              => /\ now - buffer[k].first_trade_time >= WINDOW
                 /\ exe.pc = "partition" /\ exe.i > Len(exe.trades)
                 /\ \/ \E j \in DOMAIN exe'.ready : exe'.ready[j] = buffer[k]
                    \/ \A i \in IdsOf(buffer[k].trades) : ledger'[i].bot
        /\ (exe.pc = "partition" /\ exe.i > Len(exe.trades) /\ exe' # exe)
              => /\ \A m \in DOMAIN buffer' :
                       now - buffer'[m].first_trade_time < WINDOW
                 /\ \A j \in DOMAIN exe'.ready :
                       now - exe'.ready[j].first_trade_time >= WINDOW
        /\ \A m \in DOMAIN buffer' :
              (\A k \in DOMAIN buffer : buffer[k].key # buffer'[m].key)
              => /\ buffer'[m].first_trade_time = now
                 /\ Len(buffer'[m].trades) = 1 ]_vars

\* a group was drained when its window had elapsed, and a later trade with the
\* same key has started a new group
C31_Witness ==
    /\ buffer # <<>>
    /\ buffer[1].first_trade_time = WINDOW
    /\ \E i \in Ids :
          /\ i \notin IdsOf(buffer[1].trades)
          /\ AggregationKey(TradeOf(i)) = buffer[1].key
          /\ ledger[i].bot \/ ledger[i].botExcutedTime = 1

\* C32 (stop is eventually honoured): once stop_trade_monitor() and
\* stop_trade_executor() have been called, the monitor starts no further poll
\* cycle and the executor no further pass, and the iteration they are in comes
\* nearer its end with every book-walk iteration: the walk leaves its loop, or
\* remaining decreases, or remaining is unchanged and retry increases.
C32_StopHonoured ==
    [][(~running.monitor /\ ~running.executor) =>
          /\ mon'.pc = "cycle" => mon.pc = "cycle"
          /\ exe.pc = "loop" => exe'.pc \in {"loop", "stopped"}
          /\ (walk.pc = "loop" /\ walk'.pc = "loop" /\ walk' # walk) =>
                \/ walk'.remaining < walk.remaining
                \/ walk'.remaining = walk.remaining /\ walk'.retry > walk.retry]_vars

RECURSIVE NotionalOf(_)
\* the sum of the notionals of the trade records `ids`
NotionalOf(ids) ==
    IF ids = {} THEN 0
    ELSE LET i == CHOOSE i \in ids : TRUE
         IN  TradeOf(i).usdcSize + NotionalOf(ids \ {i})

\* C33 (no duplicate buffering): a trade record is in at most one group of the
\* aggregation buffer and at most once in that group's trades, and a group's
\* total_usdc_size is the sum of the notionals of its distinct trades.
C33_NoDuplicateBuffering ==
    \A k \in DOMAIN buffer :
        /\ \A n, m \in DOMAIN buffer[k].trades :
              n # m => buffer[k].trades[n].id # buffer[k].trades[m].id
        /\ \A j \in DOMAIN buffer :
              j # k => IdsOf(buffer[j].trades) \cap IdsOf(buffer[k].trades) = {}
        /\ buffer[k].total_usdc_size = NotionalOf(IdsOf(buffer[k].trades))

\* the position in `asset` among `positions`, if any
PositionInAsset(positions, asset) ==
    IF \E n \in DOMAIN positions : positions[n].asset = asset
    THEN LET n == CHOOSE n \in DOMAIN positions : positions[n].asset = asset
         IN  Position(positions[n].size, positions[n].avgPrice)
    ELSE NoPosition

\* C34 (position matches the traded asset): the operator position and the
\* trader position that post_order is given are the positions in the trade's
\* own asset, none when the wallet holds only another outcome token of the
\* market, and no sell order is larger than the operator's holding of the asset.
C34_PositionOfAsset ==
    walk.pc # "idle" =>
        /\ walk.my_position = PositionInAsset(env.wallet.my_positions, walk.trade.asset)
        /\ walk.user_position =
              PositionInAsset(env.wallet.user_positions, walk.trade.asset)
        /\ walk.condition = "sell" =>
              walk.amount <=
                 PositionInAsset(env.wallet.my_positions, walk.trade.asset).size

\* C35 (only sells trigger sells): a sell order is submitted only for a trade
\* whose side is SELL, and no order is submitted for a trade whose side is
\* neither BUY nor SELL.
C35_OnlySellsSell ==
    /\ (walk.condition = "sell" /\ walk.orders > 0) => walk.trade.side = "SELL"
    /\ walk.trade.side \notin {"BUY", "SELL"} => walk.orders = 0

\* C36 (no dust orders): every order a walk submits meets the minimum order
\* size: a notional of at least MIN_ORDER_SIZE_USD for a buy, at least
\* MIN_ORDER_SIZE_TOKENS tokens for a sell or a merge.
C36_NoDustOrders ==
    walk.orders > 0 =>
        /\ walk.condition = "buy" => walk.amount >= MIN_ORDER_SIZE_USD
        /\ walk.condition \in {"sell", "merge"} => walk.amount >= MIN_ORDER_SIZE_TOKENS

\* C37 (bought tokens are recorded): when the execution of a buy ends, by a
\* return of post_order or by an exception raised in it, the myBoughtSize of
\* the trade's record is the sum of order_size / price over the fills of the
\* execution (absent or 0 when nothing was filled).
C37_BoughtTokensRecorded ==
    [][(exe.pc = "post" /\ walk.condition = "buy" /\ walk.pc # "idle"
          /\ walk'.pc = "idle") =>
          LET tracked == ledger'[walk.trade.id].myBoughtSize
          IN  IF walk.total_tokens > 0 THEN tracked = walk.total_tokens
              ELSE tracked \in {0, NoSize}]_vars

\* C38 (daily volume cap): with max_daily_volume_usd configured, the notional
\* of the buy orders filled, which all fall in one day, never exceeds it.
C38_DailyVolumeCap ==
    (env.config.max_daily_volume_usd # None /\ walk.condition = "buy") =>
        walk.filled <= env.config.max_daily_volume_usd

\* C39 (processed is permanent): no step sets the bot of a record back to
\* False or removes the record; _read_temp_trades returns no record with
\* bot = True; and the executor starts to execute no record with bot = True.
C39_ProcessedIsPermanent ==
    [][ /\ \A i \in Ids : ledger[i].bot => (i \in DOMAIN ledger' /\ ledger'[i].bot)
        /\ (exe.pc = "loop" /\ exe'.pc # "loop") =>
              \A n \in DOMAIN exe'.trades : ~ledger[exe'.trades[n].id].bot
        /\ (exe.pc = "mark" /\ exe'.pc = "prepare") =>
              \A i \in exe.cur.ids : ~ledger[i].bot ]_vars

====
